---- MODULE Spec2Model ----
(***************************************************************************)
(* A model of photoshow's caching and generation-limit layer:              *)
(*   src/lib/cacheService.js       file/memory backing store, merge        *)
(*   src/lib/redisCacheService.js  external key-value backing store        *)
(*   src/lib/redisClient.js        setCache / getCache                     *)
(*   src/lib/cacheManager.js       cache manager with short-TTL layer      *)
(*   src/lib/generationLimitService.js  daily generation counter           *)
(*                                                                         *)
(* Strings: "" stands for a missing / empty (falsy) field.                 *)
(* createdAt: 0 stands for a missing or unparsable timestamp (new Date()   *)
(* of it is an Invalid Date, whose numeric value is NaN); a positive       *)
(* number is the parsed time.                                              *)
(***************************************************************************)
EXTENDS Integers, Sequences, FiniteSets, TLC

VARIABLES
    \* ---- merge harness (mergeAndDeduplicateImages as a pure function) ----
    localImages,     \* the localImages argument
    cloudImages,     \* the cloudImages argument
    merged,          \* mergeAndDeduplicateImages(localImages, cloudImages)
    remerged,        \* mergeAndDeduplicateImages(localImages, merged)
    mpc,             \* "input" | "merged" | "remerged"
    \* ---- the cache: manager, the two adapters, the external store ----
    currentCacheType,   \* cacheManager.js: "file" | "redis"
    now,                \* Date.now(), in ms
    imageCache,         \* cacheService.js: the file/memory adapter's cache object
    cacheFile,          \* data/cache.json as written by the file adapter's syncCache
    memoryCache,        \* redisCacheService.js: the in-process mirror
    redis,              \* the external store: the three envelope keys
    redisUp,            \* the external store can be reached and answers
    memoryLevelCache,   \* cacheManager.js: the short-TTL memory layer
    lastStatus,         \* what the last getCacheStatus() returned, if no write followed it
    hist,               \* history of the cache calls, read only by the properties
    \* ---- the generation limit service ----
    generation,         \* the external store: the counter keys, by date
    limitRet,           \* what the last call of the limit service returned
    limitHist,          \* history of the limit calls of the day, read only by the properties
    incrementers,       \* the incrementGenerationCount() calls in progress
    \* ---- the cache-refresh routine of the images endpoint ----
    isSyncing,          \* part_012: the sync lock
    syncers,            \* the syncCacheData() calls and where each one is
    \* ---- redisClient.js: the connection ----
    redisClient,        \* the module's client (0 for null)
    connectionPromise,  \* the module's connection promise (0 for null)
    clients,            \* the clients created so far and the state of each
    promises,           \* the connection promises created so far
    callers,            \* the getRedisClient() calls and what each one got
    \* ---- the two adapters side by side ----
    adapterRet,         \* what the last call returned, from each adapter
    \* ---- imageDataModel.js as pure functions ----
    normIn,             \* the argument of normalizeImageArray
    normOut,            \* its result
    \* ---- the limit self-test endpoint ----
    selfTest,           \* where the GET handler is, and what it has seen
    \* ---- the environment of the process ----
    dailyLimit,         \* generationLimitService.js: DAILY_GENERATION_LIMIT as configured
    \* ---- the API routes that call the cache and the limit service ----
    deleteReq,          \* the DELETE request of the images endpoint
    generateReqs,       \* the POST requests of the generate endpoint
    cacheWriters,       \* adapter calls under way, each with the list it read
    uploadReq           \* the upload request's cache write with retries

mergeVars == <<localImages, cloudImages, merged, remerged, mpc>>

cacheVars == <<currentCacheType, now, imageCache, cacheFile, memoryCache, redis,
               redisUp, memoryLevelCache, lastStatus, hist>>

limitVars == <<generation, limitRet, limitHist>>

incVars == <<incrementers>>

syncVars == <<isSyncing, syncers>>

connVars == <<redisClient, connectionPromise, clients, promises, callers>>

equivVars == <<adapterRet>>

normVars == <<normIn, normOut>>

testVars == <<selfTest>>

envVars == <<dailyLimit>>

apiVars == <<deleteReq, generateReqs, cacheWriters, uploadReq>>

moreVars == <<incVars, syncVars, connVars, equivVars, normVars, testVars, envVars, apiVars>>

vars == <<mergeVars, cacheVars, limitVars, moreVars>>

----------------------------------------------------------------------------
(* Bounds *)

\* total number of records in the two argument lists of one merge
MaxImages == 3

\* records in the list passed to initCache, and in the two lists together
\* passed to syncCache
MaxListLen == 1

\* short and long steps of the clock
MaxShortTicks == 1
MaxLongTicks == 1

\* calendar days the clock moves on by, and the highest daily count
MaxDays == 2
MaxCount == 51

\* incrementGenerationCount() calls that can be in progress together, and
\* the calls made in one run of them
MaxRequests == 2
MaxCalls == 3

\* syncCacheData() calls that can be in progress together
MaxTriggers == 3

\* callers of getRedisClient, and clients they may create
MaxCallers == 3
MaxClients == 2

\* retry numbers the reconnect strategy is evaluated at
RetriesChecked == 8

\* the longest list handed to normalizeImageArray
MaxNormLen == 2

\* the largest limit configured, the default aside
MaxLimit == 3

----------------------------------------------------------------------------
(* Image records *)

IdValues == {"", "a"}
FileNameValues == {"", "a"}
CloudFileNameValues == {"", "b"}
CreatedAtValues == {0, 1, 2}

ImageRecords(isCloud) ==
    [id : IdValues, fileName : FileNameValues, cloudFileName : CloudFileNameValues,
     createdAt : CreatedAtValues, isCloudImage : {isCloud}]

SeqsUpTo(S, n) == UNION {[1..k -> S] : k \in 0..n}

----------------------------------------------------------------------------
(* mergeAndDeduplicateImages, cacheService.js 184-248 *)

\* a variant in which no local fileName is recorded
processedLocalFileNames_none(local) == {}

\* processedLocalFileNames after the first loop
processedLocalFileNames(local) ==
    {local[i].fileName : i \in DOMAIN local} \ {""}

\* processedCloudFileNames after the first loop
processedCloudFileNames(local) ==
    {local[i].cloudFileName : i \in DOMAIN local} \ {""}

\* a variant that gives a record without names a key of its own
cloudKey_neverEmpty(img) ==
    IF img.id # "" THEN img.id
    ELSE IF img.cloudFileName # "" THEN img.cloudFileName
    ELSE IF img.fileName # "" THEN img.fileName
    ELSE "unnamed"

\* cloudImage.id || cloudImage.cloudFileName || cloudImage.fileName
cloudKey(img) ==
    IF img.id # "" THEN img.id
    ELSE IF img.cloudFileName # "" THEN img.cloudFileName
    ELSE img.fileName

\* the second loop, from index i on
RECURSIVE cloudLoop(_, _, _, _, _)
cloudLoop(cloud, i, seenCloud, seenLocal, result) ==
    IF i > Len(cloud) THEN result
    ELSE LET k == cloudKey(cloud[i]) IN
         IF k # "" /\ k \notin seenCloud /\ k \notin seenLocal
         THEN cloudLoop(cloud, i + 1, seenCloud \cup {k}, seenLocal,
                        Append(result, cloud[i]))
         ELSE cloudLoop(cloud, i + 1, seenCloud, seenLocal, result)

\* result before the sort: every local image, then the cloud images kept
mergeUnsorted(local, cloud) ==
    cloudLoop(cloud, 1, processedCloudFileNames(local),
              processedLocalFileNames(local), local)

\* the comparator: new Date(b.createdAt) - new Date(a.createdAt); with an
\* Invalid Date the difference is NaN, which Array.prototype.sort reads as +0
compareCreatedAt(a, b) ==
    IF a.createdAt = 0 \/ b.createdAt = 0 THEN 0
    ELSE b.createdAt - a.createdAt

\* s[i] may directly precede s[j] in the sorted array: the comparator puts
\* it first, or calls them equal and the (stable) sort keeps their order
mayPrecede(s, i, j) ==
    \/ compareCreatedAt(s[i], s[j]) < 0
    \/ compareCreatedAt(s[i], s[j]) = 0 /\ i < j

\* the index orders, extending prefix by the indices in rest, in which every
\* neighbouring pair is in comparator order
RECURSIVE sortOrders(_, _, _)
sortOrders(s, rest, prefix) ==
    IF rest = {} THEN {prefix}
    ELSE UNION { sortOrders(s, rest \ {j}, Append(prefix, j)) :
                 j \in {k \in rest : prefix = <<>>
                                     \/ mayPrecede(s, prefix[Len(prefix)], k)} }

\* result.sort(comparator). With parsable dates only the comparator is
\* consistent and the stable sort has one outcome. With an Invalid Date it is
\* not (NaN "equals" everything), and ECMAScript leaves the order
\* implementation-defined: any order whose neighbours agree with the
\* comparator is an outcome (V8 returns [t1, NaN, t3], t1 < t3, unchanged).
sortOutcomes(s) ==
    { [i \in 1..Len(s) |-> s[p[i]]] : p \in sortOrders(s, DOMAIN s, <<>>) }

mergeAndDeduplicateImages(local, cloud) ==
    sortOutcomes(mergeUnsorted(local, cloud))

----------------------------------------------------------------------------
(* Time *)

\* cacheManager.js 29: memoryLevelCache.ttl, in ms
ttl == 10000

\* redisClient.js 117: setCache's default expireSeconds
DefaultExpireSeconds == 86400

\* the clock moves in short steps (one ttl: what the memory layer holds at
\* one instant is fresh for calls at that instant and stale after the step)
\* and long steps (the default expiry of a key); the run starts one long step
\* after the epoch, so that the zero timestamps of the memory layer are
\* stale, as in the program
ShortStep == ttl
LongStep == DefaultExpireSeconds * 1000
StartTime == LongStep

shortTicks == ((now - StartTime) % LongStep) \div ShortStep
longTicks == (now - StartTime) \div LongStep

\* a timestamp value: null, a Date object (file adapter) or the ISO string
\* of toISOString() (redis adapter); t is the time in ms
NullTime == [kind |-> "null", t |-> 0]
DateObject(t) == [kind |-> "date", t |-> t]
toISOString(t) == [kind |-> "iso", t |-> t]

----------------------------------------------------------------------------
(* Image lists: helpers of the adapters *)

\* images.findIndex(img => img.id === id): first index, 0 for -1
findIndex(images, id) ==
    IF \E i \in DOMAIN images : images[i].id = id
    THEN CHOOSE i \in DOMAIN images :
            /\ images[i].id = id
            /\ \A j \in DOMAIN images : images[j].id = id => i <= j
    ELSE 0

\* a variant that pushes whatever is there
upsertImage_push(images, image) == Append(images, image)

\* replace the first record with image.id, or push
upsertImage(images, image) ==
    LET idx == findIndex(images, image.id) IN
    IF idx # 0 THEN [images EXCEPT ![idx] = image] ELSE Append(images, image)

\* images.filter(img => img.id !== imageId)
filterOutId(images, imageId) ==
    SelectSeq(images, LAMBDA img : img.id # imageId)

\* { ...image, ...updateData }
shallowMerge(image, updateData) ==
    [f \in DOMAIN image \cup DOMAIN updateData |->
        IF f \in DOMAIN updateData THEN updateData[f] ELSE image[f]]

\* images[imageIndex] = { ...images[imageIndex], ...updateData }
updateAt(images, idx, updateData) ==
    [images EXCEPT ![idx] = shallowMerge(images[idx], updateData)]

----------------------------------------------------------------------------
(* redisClient.js: setCache / getCache on the envelope keys *)

\* typeof value === 'string' ? value : JSON.stringify(value)
valueStr(value, isString) ==
    IF isString THEN [kind |-> "raw", v |-> value]
    ELSE [kind |-> "json", v |-> value]

\* JSON.parse(value), or the raw string when that throws
parseValue(stored) == stored.v

\* a key that is not set
NoKey == [present |-> FALSE, val |-> valueStr(FALSE, FALSE), exp |-> 0]

\* the store at time t: the keys that have expired by then are gone
redisAt(rd, t) ==
    [k \in DOMAIN rd |-> IF rd[k].present /\ t < rd[k].exp THEN rd[k] ELSE NoKey]

\* the key is set and has not expired
keyLive(rd, key) == rd[key].present /\ now < rd[key].exp

\* setCache(key, value, expireSeconds): the store after the call
\* (unchanged when the client is missing or client.set throws)
setCache(rd, key, value, isString, expireSeconds) ==
    IF redisUp
    THEN [rd EXCEPT ![key] = [present |-> TRUE,
                              val |-> valueStr(value, isString),
                              exp |-> now + expireSeconds * 1000]]
    ELSE rd

\* setCache's return value
setCacheResult == redisUp

\* getCache(key) returned a value (not null)
getCacheHit(rd, key) == redisUp /\ keyLive(rd, key)

\* the value getCache(key) returned, when it is not null
getCacheValue(rd, key) == parseValue(rd[key].val)

----------------------------------------------------------------------------
(* redisCacheService.js: the reads of the external key-value adapter *)

\* getCachedImages() returned the parsed list of the store (a fresh array),
\* otherwise memoryCache.images itself
redisImagesFromStore(rd) == getCacheHit(rd, "images")

redis_getCachedImages(rd, mc) ==
    IF redisImagesFromStore(rd) THEN getCacheValue(rd, "images") ELSE mc.images

\* a variant of isCacheInitialized() that reads a missing answer as true
isCacheInitialized_missingIsTrue(rd, mc) ==
    IF getCacheHit(rd, "isInitialized") THEN getCacheValue(rd, "isInitialized")
    ELSE TRUE

\* getCache never throws, it returns null: !!null is false
redis_isCacheInitialized(rd, mc) ==
    IF getCacheHit(rd, "isInitialized") THEN getCacheValue(rd, "isInitialized")
    ELSE FALSE

redis_getLastUpdated(rd, mc) ==
    IF getCacheHit(rd, "lastUpdated") THEN getCacheValue(rd, "lastUpdated")
    ELSE NullTime

----------------------------------------------------------------------------
(* cacheService.js: the reads of the file/memory adapter *)

file_getCachedImages(ic) == ic.images
file_isCacheInitialized(ic) == ic.isInitialized
file_getLastUpdated(ic) == ic.lastUpdated

----------------------------------------------------------------------------
(* cacheService.js: the writes of the file/memory adapter.                 *)
(* Each gives the cache object after the call.                             *)

file_initCache(ic, images) ==
    [images |-> images, lastUpdated |-> DateObject(now), isInitialized |-> TRUE]

file_addImageToCache(ic, image) ==
    [ic EXCEPT !.images = upsertImage(ic.images, image),
               !.lastUpdated = DateObject(now)]

\* removeImageFromCache's return value
file_removeResult(ic, imageId) ==
    Len(filterOutId(ic.images, imageId)) # Len(ic.images)

file_removeImageFromCache(ic, imageId) ==
    IF file_removeResult(ic, imageId)
    THEN [ic EXCEPT !.images = filterOutId(ic.images, imageId),
                    !.lastUpdated = DateObject(now)]
    ELSE [ic EXCEPT !.images = filterOutId(ic.images, imageId)]

\* updateImageInCache's return value
file_updateResult(ic, imageId) == findIndex(ic.images, imageId) # 0

file_updateImageInCache(ic, imageId, updateData) ==
    IF file_updateResult(ic, imageId)
    THEN [ic EXCEPT !.images = updateAt(ic.images, findIndex(ic.images, imageId),
                                        updateData),
                    !.lastUpdated = DateObject(now)]
    ELSE ic

file_clearCache(ic) ==
    [images |-> <<>>, lastUpdated |-> DateObject(now), isInitialized |-> FALSE]

\* a variant of syncCache that does not touch isInitialized
file_syncCache_keepsFlag(ic, mergedImages) ==
    [ic EXCEPT !.images = mergedImages, !.lastUpdated = DateObject(now)]

\* syncCache, with mergedImages the result of mergeAndDeduplicateImages
file_syncCache(ic, mergedImages) ==
    [images |-> mergedImages, lastUpdated |-> DateObject(now),
     isInitialized |-> TRUE]

\* the cacheData object syncCache writes to data/cache.json
file_cacheData(mergedImages) ==
    [exists |-> TRUE, images |-> mergedImages, lastUpdated |-> toISOString(now),
     isInitialized |-> TRUE]

----------------------------------------------------------------------------
(* redisCacheService.js: the writes of the external key-value adapter.     *)
(* Each gives [rd, mc, result, newArray]: the store and the mirror after   *)
(* the call, its return value, and whether memoryCache.images is a new     *)
(* array afterwards (false: the same array object, changed in place).      *)

\* the three setCache calls of initCache / syncCache / clearCache
setEnvelope(rd, images, isInitialized) ==
    setCache(
        setCache(
            setCache(rd, "images", images, FALSE, DefaultExpireSeconds),
            "lastUpdated", toISOString(now), TRUE, DefaultExpireSeconds),
        "isInitialized", isInitialized, FALSE, DefaultExpireSeconds)

\* the two setCache calls of addImageToCache / removeImageFromCache /
\* updateImageInCache
setImagesAndStamp(rd, images) ==
    setCache(
        setCache(rd, "images", images, FALSE, DefaultExpireSeconds),
        "lastUpdated", toISOString(now), TRUE, DefaultExpireSeconds)

redis_initCache(rd, mc, images) ==
    [rd |-> setEnvelope(rd, images, TRUE),
     mc |-> [images |-> images, lastUpdated |-> toISOString(now),
             isInitialized |-> TRUE],
     result |-> TRUE, newArray |-> TRUE]

\* An image without id is refused. Otherwise the list read by
\* getCachedImages() is changed in place; when a setCache fails the throw
\* leads to the catch block, which finds the image already in
\* memoryCache.images (the same array) and stamps lastUpdated.
\* (images[0].prompt is a string for every image the callers pass.)
redis_addImageToCache(rd, mc, image) ==
    IF image.id = ""
    THEN [rd |-> rd, mc |-> mc, result |-> FALSE, newArray |-> FALSE]
    ELSE LET images == upsertImage(redis_getCachedImages(rd, mc), image) IN
         [rd |-> setImagesAndStamp(rd, images),
          mc |-> [mc EXCEPT !.images = images, !.lastUpdated = toISOString(now)],
          result |-> setCacheResult,
          newArray |-> redisImagesFromStore(rd)]

redis_removeImageFromCache(rd, mc, imageId) ==
    LET images == redis_getCachedImages(rd, mc)
        filteredImages == filterOutId(images, imageId) IN
    IF Len(filteredImages) # Len(images)
    THEN [rd |-> setImagesAndStamp(rd, filteredImages),
          mc |-> [mc EXCEPT !.images = filteredImages,
                            !.lastUpdated = toISOString(now)],
          result |-> TRUE, newArray |-> TRUE]
    ELSE [rd |-> rd, mc |-> mc, result |-> FALSE, newArray |-> FALSE]

redis_updateImageInCache(rd, mc, imageId, updateData) ==
    LET images == redis_getCachedImages(rd, mc)
        imageIndex == findIndex(images, imageId) IN
    IF imageIndex # 0
    THEN LET updated == updateAt(images, imageIndex, updateData) IN
         [rd |-> setImagesAndStamp(rd, updated),
          mc |-> [mc EXCEPT !.images = updated, !.lastUpdated = toISOString(now)],
          result |-> TRUE, newArray |-> redisImagesFromStore(rd)]
    ELSE [rd |-> rd, mc |-> mc, result |-> FALSE, newArray |-> FALSE]

redis_clearCache(rd, mc) ==
    [rd |-> setEnvelope(rd, <<>>, FALSE),
     mc |-> [images |-> <<>>, lastUpdated |-> toISOString(now),
             isInitialized |-> FALSE],
     result |-> TRUE, newArray |-> TRUE]

\* syncCache, with mergedImages the result of mergeAndDeduplicateImages
redis_syncCache(rd, mc, mergedImages) ==
    [rd |-> setEnvelope(rd, mergedImages, TRUE),
     mc |-> [images |-> mergedImages, lastUpdated |-> toISOString(now),
             isInitialized |-> TRUE],
     result |-> TRUE, newArray |-> TRUE]

----------------------------------------------------------------------------
(* cacheManager.js: the short-TTL memory layer                             *)
(*                                                                         *)
(* memoryLevelCache.images holds null (hasImages false), an array of its   *)
(* own (alias "none"), or the very array object of the file adapter        *)
(* (alias "file", the array imageCache.images) or of the mirror (alias     *)
(* "mirror", the array memoryCache.images): getCachedImages() of both      *)
(* adapters hands out its array, not a copy, so a change made in place     *)
(* to one is seen through the other.                                       *)

CACHE_TYPES == {"file", "redis"}

\* the contents of memoryLevelCache.images
mlcImages(m, ic, mc) ==
    IF m.alias = "file" THEN ic.images
    ELSE IF m.alias = "mirror" THEN mc.images
    ELSE m.images

\* the adapter `which` replaced its array by a new one: a memory layer that
\* held the old array keeps it, with the contents old
detach(m, which, old) ==
    IF m.alias = which THEN [m EXCEPT !.images = old, !.alias = "none"] ELSE m

\* the three freshness tests
imagesFresh(m) == m.hasImages /\ now - m.lastFetch < m.ttl
initializedFresh(m) == m.hasInitialized /\ now - m.lastInitializedCheck < m.ttl
lastUpdatedFresh(m) == m.lastUpdated # NullTime /\ now - m.lastUpdatedCheck < m.ttl

\* getCurrentCache(), applied to the three reads
cache_getCachedImages ==
    IF currentCacheType = "redis" THEN redis_getCachedImages(redis, memoryCache)
    ELSE file_getCachedImages(imageCache)

cache_isCacheInitialized ==
    IF currentCacheType = "redis" THEN redis_isCacheInitialized(redis, memoryCache)
    ELSE file_isCacheInitialized(imageCache)

cache_getLastUpdated ==
    IF currentCacheType = "redis" THEN redis_getLastUpdated(redis, memoryCache)
    ELSE file_getLastUpdated(imageCache)

\* which array object the adapter's getCachedImages() hands out
cache_imagesAlias ==
    IF currentCacheType = "file" THEN "file"
    ELSE IF redisImagesFromStore(redis) THEN "none" ELSE "mirror"

\* memoryLevelCache.images = result
storeImages(m, result, alias) ==
    [m EXCEPT !.hasImages = TRUE,
              !.images = IF alias = "none" THEN result ELSE <<>>,
              !.alias = alias]

\* what the manager's reads return in the current state
mgr_getCachedImages ==
    IF imagesFresh(memoryLevelCache)
    THEN mlcImages(memoryLevelCache, imageCache, memoryCache)
    ELSE cache_getCachedImages

mgr_isCacheInitialized ==
    IF initializedFresh(memoryLevelCache) THEN memoryLevelCache.isInitialized
    ELSE cache_isCacheInitialized

mgr_getLastUpdated ==
    IF lastUpdatedFresh(memoryLevelCache) THEN memoryLevelCache.lastUpdated
    ELSE cache_getLastUpdated

\* a variant that reads the time of a Date object only, not of a string
lastUpdatedTime_datesOnly(lastUpdated) ==
    IF lastUpdated.kind = "date" THEN lastUpdated.t ELSE 0

\* lastUpdatedTime of getCacheStatus: 0 when lastUpdated is falsy
lastUpdatedTime(lastUpdated) ==
    IF lastUpdated.kind = "null" THEN 0 ELSE lastUpdated.t

\* isExpired of getCacheStatus
isExpired(lastUpdated, cacheExpireMinutes) ==
    \/ lastUpdatedTime(lastUpdated) = 0
    \/ now - lastUpdatedTime(lastUpdated) > cacheExpireMinutes * 60 * 1000

\* allCached && allFresh in getCacheStatus
statusFromMemory(m) ==
    /\ m.hasImages /\ m.hasInitialized /\ m.lastUpdated # NullTime
    /\ now - m.lastFetch < m.ttl
    /\ now - m.lastInitializedCheck < m.ttl
    /\ now - m.lastUpdatedCheck < m.ttl

\* what getCacheStatus(cacheExpireMinutes) returns in the current state
mgr_getCacheStatus(cacheExpireMinutes) ==
    IF statusFromMemory(memoryLevelCache)
    THEN [images |-> mlcImages(memoryLevelCache, imageCache, memoryCache),
          isInitialized |-> memoryLevelCache.isInitialized,
          isExpired |-> isExpired(memoryLevelCache.lastUpdated, cacheExpireMinutes),
          lastUpdated |-> memoryLevelCache.lastUpdated]
    ELSE [images |-> cache_getCachedImages,
          isInitialized |-> cache_isCacheInitialized,
          isExpired |-> isExpired(cache_getLastUpdated, cacheExpireMinutes),
          lastUpdated |-> cache_getLastUpdated]

----------------------------------------------------------------------------
(* generationLimitService.js: the daily generation counter                 *)

\* generationLimitService.js 23: the default of DAILY_GENERATION_LIMIT
DAILY_GENERATION_LIMIT == 50

\* the values DAILY_GENERATION_LIMIT is configured to in the environment
ConfiguredLimits == (0..MaxLimit) \cup {DAILY_GENERATION_LIMIT}

\* the process runs with the default limit
InitEnvVars == dailyLimit = DAILY_GENERATION_LIMIT

\* a variant: the expiry setCache applies when it is given none
CACHE_TTL_SECONDS_default == DefaultExpireSeconds

\* generationLimitService.js 29: 2 days, in seconds
CACHE_TTL_SECONDS == 2 * 24 * 60 * 60

\* a calendar day, in ms
DayMs == 24 * 60 * 60 * 1000

\* getCurrentDateString(): the calendar day of the clock (the YYYY-MM-DD
\* string of the local date, here the number of the day)
dateStringAt(t) == t \div DayMs
getCurrentDateString == dateStringAt(now)

\* the days the clock can be on
DateStrings == dateStringAt(StartTime) .. dateStringAt(StartTime) + MaxDays
dayTicks == getCurrentDateString - dateStringAt(StartTime)

\* a variant of getRedisKey that leaves the date out of the key
getRedisKey_undated(dateString) == dateStringAt(StartTime)

\* getRedisKey(dateString): REDIS_KEY_PREFIX + dateString
getRedisKey(dateString) == dateString

\* count ? parseInt(count, 10) : 0, count being what getCache returned
parsedCount(gen, redisKey) ==
    IF getCacheHit(gen, redisKey) /\ getCacheValue(gen, redisKey) # 0
    THEN getCacheValue(gen, redisKey)
    ELSE 0

\* a variant of getGenerationCount() that answers with the stored count
\* also when the store cannot be reached
getGenerationCount_stale ==
    IF currentCacheType = "redis"
       /\ generation[getRedisKey(getCurrentDateString)].present
    THEN getCacheValue(generation, getRedisKey(getCurrentDateString))
    ELSE 0

\* getGenerationCount()
getGenerationCount ==
    IF currentCacheType = "redis"
    THEN parsedCount(generation, getRedisKey(getCurrentDateString))
    ELSE 0

\* what incrementGenerationCount() returns
incrementResult ==
    IF currentCacheType = "redis"
    THEN parsedCount(generation, getRedisKey(getCurrentDateString)) + 1
    ELSE 1

\* a variant of the limit test with > for >=
isLimitExceeded_strict(currentCount) == currentCount > dailyLimit

\* currentCount >= DAILY_GENERATION_LIMIT
isLimitExceeded(currentCount) == currentCount >= dailyLimit

\* a variant without the Math.max
remaining_unclamped(currentCount) == dailyLimit - currentCount

\* Math.max(0, DAILY_GENERATION_LIMIT - currentCount)
remaining(currentCount) ==
    IF dailyLimit - currentCount > 0
    THEN dailyLimit - currentCount
    ELSE 0

\* what checkGenerationLimit() returns
checkGenerationLimit ==
    [currentCount |-> getGenerationCount,
     isLimitExceeded |-> isLimitExceeded(getGenerationCount),
     limit |-> dailyLimit,
     remaining |-> remaining(getGenerationCount)]

\* limitRet when the last call of the limit service was no check
NoLimitRet ==
    [op |-> "none", currentCount |-> 0, isLimitExceeded |-> FALSE,
     limit |-> DAILY_GENERATION_LIMIT, remaining |-> 0]

\* the history of the limit service on the day of the clock:
\*   reachable    the store was reachable at every call of the service today
\*   increments   the incrementGenerationCount() calls completed today,
\*                counted as long as reachable holds (0 afterwards)
\*   incremented  incrementGenerationCount() was called today
NewDay == [increments |-> 0, reachable |-> TRUE, incremented |-> FALSE]

\* the history after a call; isIncrement: it was incrementGenerationCount()
afterCall(h, isIncrement) ==
    [reachable |-> h.reachable /\ redisUp,
     increments |-> IF h.reachable /\ redisUp
                    THEN h.increments + (IF isIncrement THEN 1 ELSE 0)
                    ELSE 0,
     incremented |-> h.incremented \/ isIncrement]

limitHistAt(h, t) == IF dateStringAt(t) # getCurrentDateString THEN NewDay ELSE h

InitLimitVars ==
    /\ generation = [d \in DateStrings |-> NoKey]
    /\ limitRet = NoLimitRet
    /\ limitHist = NewDay

\* the cache variables the limit service does not touch
cacheRest == <<imageCache, cacheFile, memoryCache, redis, memoryLevelCache,
               lastStatus, hist>>

----------------------------------------------------------------------------
(* cacheManager.js: what the writes return to their caller *)

\* a JavaScript boolean as the caller sees it
boolResult(b) == IF b THEN "true" ELSE "false"

\* addImageToCache has no return statement: the adapter's result is dropped
mgr_addImageToCache_result(image) == "undefined"

\* removeImageFromCache returns the adapter's result
mgr_removeImageFromCache_result(imageId) ==
    IF currentCacheType = "redis"
    THEN boolResult(redis_removeImageFromCache(redis, memoryCache, imageId).result)
    ELSE boolResult(file_removeResult(imageCache, imageId))

\* updateImageInCache returns the adapter's result
mgr_updateImageInCache_result(imageId, updateData) ==
    IF currentCacheType = "redis"
    THEN boolResult(redis_updateImageInCache(redis, memoryCache, imageId,
                                             updateData).result)
    ELSE boolResult(file_updateResult(imageCache, imageId))

\* the image list the backing store holds: the images key of the external
\* store (no list when the key is not set), the adapter's list otherwise
committedImages ==
    IF currentCacheType = "redis"
    THEN IF redis["images"].present THEN getCacheValue(redis, "images") ELSE <<>>
    ELSE imageCache.images

----------------------------------------------------------------------------
(* The cache state machine: calls of the cache manager, one at a time      *)

\* the images the callers pass
CacheImageSet ==
    {[id |-> i, fileName |-> "", cloudFileName |-> "", createdAt |-> 1,
      isCloudImage |-> FALSE] : i \in {"a"}}

\* the ids the callers pass: of an image above, and of none
CacheImageIds == {"a", "c"}

\* the updateData objects the callers pass
UpdateDataSet == {[isCloudImage |-> TRUE]}

\* cacheExpireMinutes: the callers pass 30 (also the default)
ExpireMinutesSet == {30}

\* lastStatus when no getCacheStatus() has returned since the last write
NoStatus ==
    [valid |-> FALSE, at |-> 0, images |-> <<>>, lastUpdated |-> NullTime,
     storeFailed |-> FALSE]

InitCacheVars ==
    /\ currentCacheType \in CACHE_TYPES
    /\ now = StartTime
    /\ imageCache = [images |-> <<>>, lastUpdated |-> NullTime,
                     isInitialized |-> FALSE]
    /\ cacheFile = [exists |-> FALSE, images |-> <<>>, lastUpdated |-> NullTime,
                    isInitialized |-> FALSE]
    /\ memoryCache = [images |-> <<>>, lastUpdated |-> NullTime,
                      isInitialized |-> FALSE]
    /\ redis = [k \in {"images", "lastUpdated", "isInitialized"} |-> NoKey]
    /\ redisUp \in BOOLEAN
    /\ memoryLevelCache =
          [hasImages |-> FALSE, images |-> <<>>, alias |-> "none", lastFetch |-> 0,
           ttl |-> ttl,
           hasInitialized |-> FALSE, isInitialized |-> FALSE,
           lastInitializedCheck |-> 0,
           lastUpdated |-> NullTime, lastUpdatedCheck |-> 0]
    /\ lastStatus = NoStatus
    /\ hist = [initOn |-> {}, written |-> FALSE]

\* ---- the writes --------------------------------------------------------

initCacheCall(images) ==
    /\ IF currentCacheType = "redis"
       THEN LET r == redis_initCache(redis, memoryCache, images) IN
            /\ redis' = r.rd
            /\ memoryCache' = r.mc
            /\ memoryLevelCache' =
                  detach(memoryLevelCache, "mirror", memoryCache.images)
            /\ UNCHANGED imageCache
       ELSE /\ imageCache' = file_initCache(imageCache, images)
            /\ memoryLevelCache' =
                  detach(memoryLevelCache, "file", imageCache.images)
            /\ UNCHANGED <<redis, memoryCache>>
    /\ lastStatus' = NoStatus
    /\ hist' = [initOn |-> hist.initOn \cup {currentCacheType}, written |-> TRUE]
    /\ UNCHANGED <<currentCacheType, now, cacheFile, redisUp>>

MgrInitCache(images) ==
    /\ initCacheCall(images)
    /\ UNCHANGED <<mergeVars, limitVars, moreVars>>

\* The adapter's call, then the update of memoryLevelCache.images in place:
\* when that is the adapter's own array, the adapter's list changes with it.
\* The manager returns nothing.
addImageToCacheCall(image) ==
    LET isRedis == currentCacheType = "redis"
        r == redis_addImageToCache(redis, memoryCache, image)
        ic1 == IF isRedis THEN imageCache
               ELSE file_addImageToCache(imageCache, image)
        mc1 == IF isRedis THEN r.mc ELSE memoryCache
        m1 == IF isRedis /\ r.newArray
              THEN detach(memoryLevelCache, "mirror", memoryCache.images)
              ELSE memoryLevelCache
        arr == upsertImage(mlcImages(m1, ic1, mc1), image)
    IN  /\ redis' = IF isRedis THEN r.rd ELSE redis
        /\ imageCache' = IF m1.hasImages /\ m1.alias = "file"
                         THEN [ic1 EXCEPT !.images = arr] ELSE ic1
        /\ memoryCache' = IF m1.hasImages /\ m1.alias = "mirror"
                          THEN [mc1 EXCEPT !.images = arr] ELSE mc1
        /\ memoryLevelCache' = IF m1.hasImages /\ m1.alias = "none"
                               THEN [m1 EXCEPT !.images = arr] ELSE m1
        /\ lastStatus' = NoStatus
        /\ hist' = [hist EXCEPT !.written = TRUE]
        /\ UNCHANGED <<currentCacheType, now, cacheFile, redisUp>>

MgrAddImageToCache(image) ==
    /\ addImageToCacheCall(image)
    /\ UNCHANGED <<mergeVars, limitVars, moreVars>>

\* The adapter's call, then memoryLevelCache.images = its filter (a new array).
removeImageFromCacheCall(imageId) ==
    LET isRedis == currentCacheType = "redis"
        r == redis_removeImageFromCache(redis, memoryCache, imageId)
        ic1 == IF isRedis THEN imageCache
               ELSE file_removeImageFromCache(imageCache, imageId)
        mc1 == IF isRedis THEN r.mc ELSE memoryCache
        m1 == IF isRedis
              THEN IF r.newArray
                   THEN detach(memoryLevelCache, "mirror", memoryCache.images)
                   ELSE memoryLevelCache
              ELSE detach(memoryLevelCache, "file", imageCache.images)
    IN  /\ redis' = IF isRedis THEN r.rd ELSE redis
        /\ imageCache' = ic1
        /\ memoryCache' = mc1
        /\ memoryLevelCache' =
              IF m1.hasImages
              THEN [m1 EXCEPT !.images = filterOutId(mlcImages(m1, ic1, mc1), imageId),
                              !.alias = "none"]
              ELSE m1
        /\ lastStatus' = NoStatus
        /\ hist' = [hist EXCEPT !.written = TRUE]
        /\ UNCHANGED <<currentCacheType, now, cacheFile, redisUp>>

MgrRemoveImageFromCache(imageId) ==
    /\ removeImageFromCacheCall(imageId)
    /\ UNCHANGED <<mergeVars, limitVars, moreVars>>

\* The adapter's call only; the memory layer is not touched.
MgrUpdateImageInCache(imageId, updateData) ==
    LET isRedis == currentCacheType = "redis"
        r == redis_updateImageInCache(redis, memoryCache, imageId, updateData)
    IN  /\ redis' = IF isRedis THEN r.rd ELSE redis
        /\ imageCache' = IF isRedis THEN imageCache
                         ELSE file_updateImageInCache(imageCache, imageId, updateData)
        /\ memoryCache' = IF isRedis THEN r.mc ELSE memoryCache
        /\ memoryLevelCache' =
              IF isRedis /\ r.newArray
              THEN detach(memoryLevelCache, "mirror", memoryCache.images)
              ELSE memoryLevelCache
        /\ lastStatus' = NoStatus
        /\ hist' = [hist EXCEPT !.written = TRUE]
        /\ UNCHANGED <<currentCacheType, now, cacheFile, redisUp, mergeVars, limitVars, moreVars>>

MgrClearCache ==
    /\ IF currentCacheType = "redis"
       THEN LET r == redis_clearCache(redis, memoryCache) IN
            /\ redis' = r.rd
            /\ memoryCache' = r.mc
            /\ memoryLevelCache' =
                  detach(memoryLevelCache, "mirror", memoryCache.images)
            /\ UNCHANGED imageCache
       ELSE /\ imageCache' = file_clearCache(imageCache)
            /\ memoryLevelCache' =
                  detach(memoryLevelCache, "file", imageCache.images)
            /\ UNCHANGED <<redis, memoryCache>>
    /\ lastStatus' = NoStatus
    /\ hist' = [initOn |-> hist.initOn \ {currentCacheType}, written |-> TRUE]
    /\ UNCHANGED <<currentCacheType, now, cacheFile, redisUp, mergeVars, limitVars, moreVars>>

\* syncCache: the merge, the adapter's stores, and in the file adapter the
\* write of data/cache.json, which may fail without any other effect
syncCacheCall(local, cloud) ==
    \E mergedImages \in mergeAndDeduplicateImages(local, cloud) :
        /\ IF currentCacheType = "redis"
           THEN LET r == redis_syncCache(redis, memoryCache, mergedImages) IN
                /\ redis' = r.rd
                /\ memoryCache' = r.mc
                /\ memoryLevelCache' =
                      detach(memoryLevelCache, "mirror", memoryCache.images)
                /\ UNCHANGED <<imageCache, cacheFile>>
           ELSE /\ imageCache' = file_syncCache(imageCache, mergedImages)
                /\ memoryLevelCache' =
                      detach(memoryLevelCache, "file", imageCache.images)
                /\ cacheFile' \in {cacheFile, file_cacheData(mergedImages)}
                /\ UNCHANGED <<redis, memoryCache>>
        /\ lastStatus' = NoStatus
        /\ hist' = [initOn |-> hist.initOn \cup {currentCacheType}, written |-> TRUE]
        /\ UNCHANGED <<currentCacheType, now, redisUp>>

MgrSyncCache(local, cloud) ==
    /\ syncCacheCall(local, cloud)
    /\ UNCHANGED <<mergeVars, limitVars, moreVars>>

\* ---- the reads ---------------------------------------------------------

MgrGetCachedImages ==
    /\ memoryLevelCache' =
          IF imagesFresh(memoryLevelCache) THEN memoryLevelCache
          ELSE [storeImages(memoryLevelCache, cache_getCachedImages,
                            cache_imagesAlias)
                   EXCEPT !.lastFetch = now]
    /\ UNCHANGED <<currentCacheType, now, imageCache, cacheFile, memoryCache,
                   redis, redisUp, lastStatus, hist, mergeVars, limitVars, moreVars>>

MgrIsCacheInitialized ==
    /\ memoryLevelCache' =
          IF initializedFresh(memoryLevelCache) THEN memoryLevelCache
          ELSE [memoryLevelCache EXCEPT !.hasInitialized = TRUE,
                                        !.isInitialized = cache_isCacheInitialized,
                                        !.lastInitializedCheck = now]
    /\ UNCHANGED <<currentCacheType, now, imageCache, cacheFile, memoryCache,
                   redis, redisUp, lastStatus, hist, mergeVars, limitVars, moreVars>>

MgrGetLastUpdated ==
    /\ memoryLevelCache' =
          IF lastUpdatedFresh(memoryLevelCache) THEN memoryLevelCache
          ELSE [memoryLevelCache EXCEPT !.lastUpdated = cache_getLastUpdated,
                                        !.lastUpdatedCheck = now]
    /\ UNCHANGED <<currentCacheType, now, imageCache, cacheFile, memoryCache,
                   redis, redisUp, lastStatus, hist, mergeVars, limitVars, moreVars>>

getCacheStatusCall(cacheExpireMinutes) ==
    LET status == mgr_getCacheStatus(cacheExpireMinutes) IN
    /\ lastStatus' = [valid |-> TRUE, at |-> now,
                      images |-> status.images,
                      lastUpdated |-> status.lastUpdated,
                      storeFailed |-> /\ ~statusFromMemory(memoryLevelCache)
                                      /\ currentCacheType = "redis"
                                      /\ ~redisUp]
    /\ memoryLevelCache' =
          IF statusFromMemory(memoryLevelCache) THEN memoryLevelCache
          ELSE [storeImages(memoryLevelCache, cache_getCachedImages,
                            cache_imagesAlias)
                   EXCEPT !.lastFetch = now,
                          !.hasInitialized = TRUE,
                          !.isInitialized = cache_isCacheInitialized,
                          !.lastInitializedCheck = now,
                          !.lastUpdated = cache_getLastUpdated,
                          !.lastUpdatedCheck = now]
    /\ UNCHANGED <<currentCacheType, now, imageCache, cacheFile, memoryCache,
                   redis, redisUp, hist>>

MgrGetCacheStatus(cacheExpireMinutes) ==
    /\ getCacheStatusCall(cacheExpireMinutes)
    /\ UNCHANGED <<mergeVars, limitVars, moreVars>>

\* ---- the environment ---------------------------------------------------

\* setCacheType(cacheType), called by the cache-type configuration endpoint.
\* The runs of NextCache and NextLimit keep the type the process started with.
SetCacheType(cacheType) ==
    /\ currentCacheType' =
          IF cacheType \in CACHE_TYPES THEN cacheType ELSE currentCacheType
    /\ lastStatus' = NoStatus
    /\ UNCHANGED <<now, imageCache, cacheFile, memoryCache, redis, redisUp,
                   memoryLevelCache, hist, mergeVars, limitVars, moreVars>>

\* Time passes, to time t. What the passing of time makes indistinguishable
\* is stored alike: a check time of the memory layer that is no longer
\* fresh becomes 0 (it is read only in `now - check < ttl`), a key of the
\* store that has expired is removed (as the store does), a status older
\* than ttl and the last result of the limit service are forgotten, and the
\* history of the limit service's day starts anew on a new day.
checkTimeAt(check, t) == IF t - check < ttl THEN check ELSE 0

memoryLevelCacheAt(m, t) ==
    [m EXCEPT !.lastFetch = checkTimeAt(m.lastFetch, t),
              !.lastInitializedCheck = checkTimeAt(m.lastInitializedCheck, t),
              !.lastUpdatedCheck = checkTimeAt(m.lastUpdatedCheck, t)]

lastStatusAt(s, t) == IF s.valid /\ t - s.at < ttl THEN s ELSE NoStatus

TimePasses(t) ==
    /\ now' = t
    /\ memoryLevelCache' = memoryLevelCacheAt(memoryLevelCache, t)
    /\ redis' = redisAt(redis, t)
    /\ lastStatus' = lastStatusAt(lastStatus, t)
    /\ generation' = redisAt(generation, t)
    /\ limitRet' = NoLimitRet
    /\ limitHist' = limitHistAt(limitHist, t)
    /\ UNCHANGED <<currentCacheType, imageCache, cacheFile, memoryCache,
                   redisUp, hist, mergeVars, moreVars>>

TickShort ==
    /\ shortTicks < MaxShortTicks
    /\ TimePasses(now + ShortStep)

TickLong ==
    /\ longTicks < MaxLongTicks
    /\ TimePasses(now + LongStep)

\* the external store becomes unreachable / reachable again
RedisFails ==
    /\ redisUp
    /\ redisUp' = FALSE
    /\ UNCHANGED <<currentCacheType, now, imageCache, cacheFile, memoryCache,
                   redis, memoryLevelCache, lastStatus, hist, mergeVars, limitVars, moreVars>>

RedisRecovers ==
    /\ ~redisUp
    /\ redisUp' = TRUE
    /\ UNCHANGED <<currentCacheType, now, imageCache, cacheFile, memoryCache,
                   redis, memoryLevelCache, lastStatus, hist, mergeVars, limitVars, moreVars>>

NextCache ==
    \/ \E images \in SeqsUpTo(CacheImageSet, MaxListLen) : MgrInitCache(images)
    \/ \E image \in CacheImageSet : MgrAddImageToCache(image)
    \/ \E imageId \in CacheImageIds : MgrRemoveImageFromCache(imageId)
    \/ \E imageId \in CacheImageIds : \E updateData \in UpdateDataSet :
          MgrUpdateImageInCache(imageId, updateData)
    \/ MgrClearCache
    \/ \E local \in SeqsUpTo(CacheImageSet, MaxListLen) :
          \E cloud \in SeqsUpTo(CacheImageSet, MaxListLen - Len(local)) :
             MgrSyncCache(local, cloud)
    \/ MgrGetCachedImages
    \/ MgrIsCacheInitialized
    \/ MgrGetLastUpdated
    \/ \E cacheExpireMinutes \in ExpireMinutesSet :
          MgrGetCacheStatus(cacheExpireMinutes)
    \/ TickShort
    \/ TickLong
    \/ RedisFails
    \/ RedisRecovers

----------------------------------------------------------------------------
(* The limit state machine: calls of the limit service, one at a time     *)

GetGenerationCount ==
    /\ limitRet' = [NoLimitRet EXCEPT !.op = "getGenerationCount",
                                      !.currentCount = getGenerationCount]
    /\ limitHist' = afterCall(limitHist, FALSE)
    /\ UNCHANGED <<generation, currentCacheType, now, redisUp, cacheRest,
                   mergeVars, moreVars>>

\* the read, the addition, the setCache (whose result is only logged)
IncrementGenerationCount ==
    /\ incrementResult <= MaxCount
    /\ limitHist.increments < MaxCount
    /\ generation' =
          IF currentCacheType = "redis"
          THEN setCache(generation, getRedisKey(getCurrentDateString),
                        incrementResult, FALSE, CACHE_TTL_SECONDS)
          ELSE generation
    /\ limitRet' = [NoLimitRet EXCEPT !.op = "incrementGenerationCount",
                                      !.currentCount = incrementResult]
    /\ limitHist' = afterCall(limitHist, TRUE)
    /\ UNCHANGED <<currentCacheType, now, redisUp, cacheRest, mergeVars, moreVars>>

CheckGenerationLimit ==
    /\ limitRet' = [op |-> "checkGenerationLimit",
                    currentCount |-> checkGenerationLimit.currentCount,
                    isLimitExceeded |-> checkGenerationLimit.isLimitExceeded,
                    limit |-> checkGenerationLimit.limit,
                    remaining |-> checkGenerationLimit.remaining]
    /\ limitHist' = afterCall(limitHist, FALSE)
    /\ UNCHANGED <<generation, currentCacheType, now, redisUp, cacheRest,
                   mergeVars, moreVars>>

\* the clock moves to the next calendar day
TickDay ==
    /\ dayTicks < MaxDays
    /\ TimePasses(now + DayMs)

NextLimit ==
    \/ GetGenerationCount
    \/ IncrementGenerationCount
    \/ CheckGenerationLimit
    \/ TickDay
    \/ RedisFails
    \/ RedisRecovers

----------------------------------------------------------------------------
(* incrementGenerationCount() of several requests: the function gives way  *)
(* at its two awaits, getCache and setCache                                *)

Requests == 1..MaxRequests

IdleIncrement == [pc |-> "idle", redisKey |-> 0, count |-> 0]

InitIncVars == incrementers = [r \in Requests |-> IdleIncrement]

\* the calls in progress
inProgress == {r \in Requests : incrementers[r].pc # "idle"}

\* lines 83-97: the key of today, the read of the key, the addition. With
\* the file adapter the call has no await and returns 1 at once.
IncrementRead(r) ==
    /\ incrementers[r].pc = "idle"
    /\ limitHist.increments + Cardinality(inProgress) < MaxCalls
    /\ incrementResult <= MaxCalls
    /\ IF currentCacheType = "redis"
       THEN /\ incrementers' =
                  [incrementers EXCEPT ![r] =
                      [pc |-> "setCache",
                       redisKey |-> getRedisKey(getCurrentDateString),
                       count |-> incrementResult]]
            /\ limitHist' = afterCall(limitHist, FALSE)
            /\ UNCHANGED limitRet
       ELSE /\ limitRet' = [NoLimitRet EXCEPT !.op = "incrementGenerationCount",
                                              !.currentCount = 1]
            /\ limitHist' = afterCall(limitHist, TRUE)
            /\ UNCHANGED incrementers
    /\ UNCHANGED <<generation, currentCacheType, now, redisUp, cacheRest,
                   mergeVars, syncVars, connVars, equivVars, normVars, testVars, envVars, apiVars>>

\* lines 101-104: setCache(redisKey, count, CACHE_TTL_SECONDS), return count
IncrementWrite(r) ==
    /\ incrementers[r].pc = "setCache"
    /\ generation' = setCache(generation, incrementers[r].redisKey,
                              incrementers[r].count, FALSE, CACHE_TTL_SECONDS)
    /\ limitRet' = [NoLimitRet EXCEPT !.op = "incrementGenerationCount",
                                      !.currentCount = incrementers[r].count]
    /\ limitHist' = afterCall(limitHist, TRUE)
    /\ incrementers' = [incrementers EXCEPT ![r] = IdleIncrement]
    /\ UNCHANGED <<currentCacheType, now, redisUp, cacheRest,
                   mergeVars, syncVars, connVars, equivVars, normVars, testVars, envVars, apiVars>>

NextIncrement ==
    \/ \E r \in Requests : IncrementRead(r)
    \/ \E r \in Requests : IncrementWrite(r)
    \/ RedisFails
    \/ RedisRecovers

----------------------------------------------------------------------------
(* part_012 475-568: syncCacheData(), triggered by the requests of the     *)
(* images endpoint; it gives way at its awaits, listImages() and           *)
(* syncCache()                                                             *)

Triggers == 1..MaxTriggers

\* what listImages() returns: objects with a key and lastModified; an
\* object without a key is invalid
ListedObjects == {[key |-> k, lastModified |-> 1] : k \in {"", "a"}}

\* lines 524-539: the map to the record format, without the invalid ones
RECURSIVE formatCloudImages(_)
formatCloudImages(listed) ==
    IF listed = <<>> THEN <<>>
    ELSE LET img == Head(listed)
             rest == formatCloudImages(Tail(listed)) IN
         IF img.key = "" THEN rest
         ELSE <<[id |-> img.key, fileName |-> img.key,
                 cloudFileName |-> img.key, createdAt |-> img.lastModified,
                 isCloudImage |-> TRUE]>> \o rest

IdleSyncer == [pc |-> "idle", result |-> "none"]

InitSyncVars ==
    /\ isSyncing = FALSE
    /\ syncers = [t \in Triggers |-> IdleSyncer]

\* the calls that hold the lock: between isSyncing = true and the finally
refreshing == {t \in Triggers : syncers[t].pc # "idle"}

\* a variant of the lock test that never finds the lock held
lockHeld_never == FALSE

\* lines 486-489: if (isSyncing)
lockHeld == isSyncing

\* lines 484-511: the test of the lock; the call returns true at once when
\* it is held, otherwise it takes the lock and calls listImages()
syncStartCall(t) ==
    /\ syncers[t].pc = "idle"
    /\ IF lockHeld
       THEN /\ syncers' = [syncers EXCEPT ![t] = [pc |-> "idle", result |-> "skipped"]]
            /\ UNCHANGED isSyncing
       ELSE /\ isSyncing' = TRUE
            /\ syncers' = [syncers EXCEPT ![t] = [pc |-> "listImages", result |-> "none"]]

SyncStart(t) ==
    /\ syncStartCall(t)
    /\ UNCHANGED <<mergeVars, cacheVars, limitVars, incVars, connVars,
                   equivVars, normVars, testVars, envVars, apiVars>>

\* lines 511-550: listImages() has returned a list (the empty list when
\* it threw), they are formatted and handed to syncCache([], formatted)
SyncListed(t, listed) ==
    /\ syncers[t].pc = "listImages"
    /\ syncCacheCall(<<>>, formatCloudImages(listed))
    /\ syncers' = [syncers EXCEPT ![t] = [pc |-> "syncCache", result |-> "none"]]
    /\ UNCHANGED <<isSyncing, mergeVars, limitVars, incVars, connVars,
                   equivVars, normVars, testVars, envVars, apiVars>>

\* lines 551-567: syncCache() has completed; return true, and the finally
SyncReturn(t) ==
    /\ syncers[t].pc = "syncCache"
    /\ isSyncing' = FALSE
    /\ syncers' = [syncers EXCEPT ![t] = [pc |-> "idle", result |-> "synced"]]
    /\ UNCHANGED <<mergeVars, cacheVars, limitVars, incVars, connVars,
                   equivVars, normVars, testVars, envVars, apiVars>>

NextSync ==
    \/ \E t \in Triggers : SyncStart(t)
    \/ \E t \in Triggers : \E listed \in SeqsUpTo(ListedObjects, MaxListLen) :
          SyncListed(t, listed)
    \/ \E t \in Triggers : SyncReturn(t)
    \/ RedisFails
    \/ RedisRecovers

----------------------------------------------------------------------------
(* The redis connection: getRedisClient *)

Callers == 1..MaxCallers

\* reconnectStrategy returns false: no further attempt
GiveUp == -1

\* the last retry number that is still answered with a delay
MaxRetries == 3
\* the delay grows by this much per retry, in ms
RetryStepMs == 500
\* and is capped at this, in ms
MaxDelayMs == 3000

\* a variant that never gives up
reconnectStrategy_forever(retries) ==
    IF retries * RetryStepMs < MaxDelayMs THEN retries * RetryStepMs ELSE MaxDelayMs

\* socket.reconnectStrategy
reconnectStrategy(retries) ==
    IF retries > MaxRetries
    THEN GiveUp
    ELSE IF retries * RetryStepMs < MaxDelayMs THEN retries * RetryStepMs ELSE MaxDelayMs

\* a caller that has not called yet
IdleCaller == [pc |-> "idle", promise |-> 0, ret |-> 0]

\* redisClient = null, connectionPromise = null; no client was created yet
InitConnVars ==
    /\ redisClient = 0
    /\ connectionPromise = 0
    /\ clients = <<>>
    /\ promises = <<>>
    /\ callers = [c \in Callers |-> IdleCaller]

\* the clients whose connect() is still in progress
connecting == {k \in DOMAIN clients : clients[k].state = "connecting"}

\* what client.isOpen may answer: the library sets it when connect() is
\* called or when the socket is ready, depending on its version
isOpenValues(k) ==
    CASE clients[k].state = "connecting" -> BOOLEAN
      [] clients[k].state = "ready" -> {TRUE}
      [] clients[k].state = "reconnecting" -> BOOLEAN
      [] OTHER -> {FALSE}

\* the promise p is settled with value: every caller awaiting it resumes
settle(p, value) ==
    [c \in Callers |->
        IF callers[c].pc = "waiting" /\ callers[c].promise = p
        THEN [pc |-> "done", promise |-> p, ret |-> value]
        ELSE callers[c]]

connRest == <<mergeVars, cacheVars, limitVars, incVars, syncVars, equivVars, normVars, testVars, envVars, apiVars>>

\* caller c calls getRedisClient()
GetRedisClient(c) ==
    /\ callers[c].pc = "idle"
    /\ \E open \in (IF redisClient = 0 THEN {FALSE} ELSE isOpenValues(redisClient)) :
         IF open
         THEN /\ callers' = [callers EXCEPT ![c] =
                    [pc |-> "done", promise |-> 0, ret |-> redisClient]]
              /\ UNCHANGED <<redisClient, connectionPromise, clients, promises>>
         ELSE IF connectionPromise # 0
         THEN /\ callers' = [callers EXCEPT ![c] =
                    IF promises[connectionPromise].state = "settled"
                    THEN [pc |-> "done", promise |-> connectionPromise,
                          ret |-> promises[connectionPromise].value]
                    ELSE [pc |-> "waiting", promise |-> connectionPromise, ret |-> 0]]
              /\ UNCHANGED <<redisClient, connectionPromise, clients, promises>>
         ELSE /\ Len(clients) < MaxClients
              /\ clients' = Append(clients,
                    [state |-> "connecting", retries |-> 0, delays |-> <<>>])
              /\ promises' = Append(promises, [state |-> "connect", value |-> 0])
              /\ redisClient' = Len(clients) + 1
              /\ connectionPromise' = Len(promises) + 1
              /\ callers' = [callers EXCEPT ![c] =
                    [pc |-> "waiting", promise |-> Len(promises) + 1, ret |-> 0]]
    /\ UNCHANGED connRest

\* client k: connect() resolves; the creating call goes on to the ping
ConnectSucceeds(k) ==
    /\ k \in connecting
    /\ clients' = [clients EXCEPT ![k].state = "ready"]
    /\ promises' = [promises EXCEPT ![k].state = "ping"]
    /\ UNCHANGED <<redisClient, connectionPromise, callers, connRest>>

\* client k: the ping is over (its failure is caught); return redisClient
PingDone(k) ==
    /\ k \in DOMAIN promises
    /\ promises[k].state = "ping"
    /\ promises' = [promises EXCEPT ![k] = [state |-> "settled", value |-> redisClient]]
    /\ callers' = settle(k, redisClient)
    /\ UNCHANGED <<redisClient, connectionPromise, clients, connRest>>

\* client k: a connection attempt fails; the reconnect strategy is asked
ConnectError(k) ==
    /\ k \in connecting
    /\ LET delay == reconnectStrategy(clients[k].retries) IN
         IF delay = GiveUp
         THEN \* connect() rejects: the catch block
              /\ clients' = [clients EXCEPT ![k].state = "closed"]
              /\ promises' = [promises EXCEPT ![k] = [state |-> "settled", value |-> 0]]
              /\ callers' = settle(k, 0)
         ELSE \* 'error' is emitted and the attempt is repeated after delay
              /\ clients' = [clients EXCEPT
                    ![k].retries = @ + 1,
                    ![k].delays = Append(@, delay)]
              /\ UNCHANGED <<promises, callers>>
    /\ redisClient' = 0
    /\ connectionPromise' = 0
    /\ UNCHANGED connRest

\* client k is connected and its socket fails: the 'error' handler
SocketError(k) ==
    /\ k \in DOMAIN clients
    /\ clients[k].state = "ready"
    /\ clients' = [clients EXCEPT ![k].state = "reconnecting"]
    /\ redisClient' = 0
    /\ connectionPromise' = 0
    /\ UNCHANGED <<promises, callers, connRest>>

NextRedisClient ==
    \/ \E c \in Callers : GetRedisClient(c)
    \/ \E k \in 1..MaxClients : ConnectSucceeds(k)
    \/ \E k \in 1..MaxClients : PingDone(k)
    \/ \E k \in 1..MaxClients : ConnectError(k)
    \/ \E k \in 1..MaxClients : SocketError(k)

----------------------------------------------------------------------------
(* The two adapters side by side: every call goes to cacheService.js and   *)
(* to redisCacheService.js (store healthy) with the same arguments         *)

\* the images the callers pass: one with an id and one without
EquivImageSet ==
    {[id |-> i, fileName |-> "", cloudFileName |-> "", createdAt |-> 1,
      isCloudImage |-> FALSE] : i \in {"a", ""}}

\* what a call returned: undefined, a boolean, or a list
retUndefined == [kind |-> "undefined", list |-> <<>>]
retBool(b) == [kind |-> boolResult(b), list |-> <<>>]
retList(images) == [kind |-> "list", list |-> images]

\* no call has returned yet
NoAdapterRet == [op |-> "none", file |-> retUndefined, redis |-> retUndefined]

InitEquivVars == adapterRet = NoAdapterRet

equivRest ==
    <<currentCacheType, now, redisUp, memoryLevelCache, lastStatus, hist,
      mergeVars, limitVars, incVars, syncVars, connVars, normVars, testVars, envVars, apiVars>>

\* both adapters take the call; fileRet and redisRet are what they return
bothAdapters(op, ic, r, fileRet, redisRet) ==
    /\ redisUp
    /\ imageCache' = ic
    /\ redis' = r.rd
    /\ memoryCache' = r.mc
    /\ adapterRet' = [op |-> op, file |-> fileRet, redis |-> redisRet]
    /\ UNCHANGED equivRest

EquivInitCache(images) ==
    /\ bothAdapters("initCache", file_initCache(imageCache, images),
                    redis_initCache(redis, memoryCache, images),
                    retUndefined, retUndefined)
    /\ UNCHANGED cacheFile

EquivAddImageToCache(image) ==
    LET r == redis_addImageToCache(redis, memoryCache, image) IN
    /\ bothAdapters("addImageToCache", file_addImageToCache(imageCache, image), r,
                    retUndefined, retBool(r.result))
    /\ UNCHANGED cacheFile

EquivRemoveImageFromCache(imageId) ==
    LET r == redis_removeImageFromCache(redis, memoryCache, imageId) IN
    /\ bothAdapters("removeImageFromCache",
                    file_removeImageFromCache(imageCache, imageId), r,
                    retBool(file_removeResult(imageCache, imageId)),
                    retBool(r.result))
    /\ UNCHANGED cacheFile

EquivUpdateImageInCache(imageId, updateData) ==
    LET r == redis_updateImageInCache(redis, memoryCache, imageId, updateData) IN
    /\ bothAdapters("updateImageInCache",
                    file_updateImageInCache(imageCache, imageId, updateData), r,
                    retBool(file_updateResult(imageCache, imageId)),
                    retBool(r.result))
    /\ UNCHANGED cacheFile

EquivClearCache ==
    /\ bothAdapters("clearCache", file_clearCache(imageCache),
                    redis_clearCache(redis, memoryCache),
                    retUndefined, retUndefined)
    /\ UNCHANGED cacheFile

EquivSyncCache(local, cloud) ==
    \E mergedImages \in mergeAndDeduplicateImages(local, cloud) :
        /\ bothAdapters("syncCache", file_syncCache(imageCache, mergedImages),
                        redis_syncCache(redis, memoryCache, mergedImages),
                        retUndefined, retUndefined)
        /\ cacheFile' \in {cacheFile, file_cacheData(mergedImages)}

EquivGetCachedImages ==
    /\ bothAdapters("getCachedImages", imageCache,
                    [rd |-> redis, mc |-> memoryCache],
                    retList(file_getCachedImages(imageCache)),
                    retList(redis_getCachedImages(redis, memoryCache)))
    /\ UNCHANGED cacheFile

EquivIsCacheInitialized ==
    /\ bothAdapters("isCacheInitialized", imageCache,
                    [rd |-> redis, mc |-> memoryCache],
                    retBool(file_isCacheInitialized(imageCache)),
                    retBool(redis_isCacheInitialized(redis, memoryCache)))
    /\ UNCHANGED cacheFile

NextEquiv ==
    \/ \E images \in SeqsUpTo(EquivImageSet, MaxListLen) : EquivInitCache(images)
    \/ \E image \in EquivImageSet : EquivAddImageToCache(image)
    \/ \E imageId \in CacheImageIds : EquivRemoveImageFromCache(imageId)
    \/ \E imageId \in CacheImageIds : \E updateData \in UpdateDataSet :
          EquivUpdateImageInCache(imageId, updateData)
    \/ EquivClearCache
    \/ \E local \in SeqsUpTo(EquivImageSet, MaxListLen) :
          \E cloud \in SeqsUpTo(EquivImageSet, MaxListLen - Len(local)) :
             EquivSyncCache(local, cloud)
    \/ EquivGetCachedImages
    \/ EquivIsCacheInitialized

----------------------------------------------------------------------------
(* imageDataModel.js: normalizeImageData / normalizeImageArray             *)

\* JavaScript values of the fields: undefined, a string, an array of strings
Undefined == [t |-> "undefined", s |-> "", l |-> <<>>]
Str(x) == [t |-> "string", s |-> x, l |-> <<>>]
List(xs) == [t |-> "list", s |-> "", l |-> xs]
Bool(b) == [t |-> boolResult(b), s |-> "", l |-> <<>>]

\* the metadata field: undefined, or an object with its prompt and createdAt
NoMetadata == [t |-> "undefined", prompt |-> Undefined, createdAt |-> Undefined]
Metadata(prompt) == [t |-> "object", prompt |-> prompt, createdAt |-> Undefined]

\* a || b picks by truthiness: undefined, false and '' are falsy
truthy(v) == v.t \notin {"undefined", "false"} /\ ~(v.t = "string" /\ v.s = "")
or(a, b) == IF truthy(a) THEN a ELSE b

\* imageData.metadata?.prompt, imageData.metadata?.createdAt
metadataPrompt(imageData) ==
    IF imageData.metadata.t = "object" THEN imageData.metadata.prompt ELSE Undefined
metadataCreatedAt(imageData) ==
    IF imageData.metadata.t = "object" THEN imageData.metadata.createdAt ELSE Undefined

\* the string written for a missing prompt (Chinese for "no prompt")
NoPromptPlaceholder == "no-prompt"
\* `img-${Date.now()}`, new Date().toISOString()
GeneratedId == "img-now"
IsoNow == "iso-now"

\* null as an entry of the list, or as the argument
NullImage ==
    [isNull |-> TRUE, id |-> Undefined, fileName |-> Undefined, key |-> Undefined,
     imageUrl |-> Undefined, url |-> Undefined, publicUrl |-> Undefined,
     prompt |-> Undefined, createdAt |-> Undefined, isCloudImage |-> Undefined,
     cloudFileName |-> Undefined, metadata |-> NoMetadata, tags |-> Undefined]

\* the raw records: from the cloud listing (key, url), from the client
\* (id, fileName), with and without prompt, metadata and tags; tags come as
\* the JSON text of a list or as a list
RawImages ==
    {[isNull |-> FALSE, id |-> id, fileName |-> fileName, key |-> Undefined,
      imageUrl |-> Undefined, url |-> Str("u"), publicUrl |-> Undefined,
      prompt |-> prompt, createdAt |-> Undefined, isCloudImage |-> Undefined,
      cloudFileName |-> Undefined, metadata |-> metadata, tags |-> tags] :
        id \in {Undefined, Str("a")},
        fileName \in {Undefined, Str("f")},
        prompt \in {Undefined, Str("p")},
        metadata \in {NoMetadata, Metadata(Undefined), Metadata(Str("mp"))},
        tags \in {Undefined, Str("[x]"), List(<<"x">>)}}

normalizeImageData(imageData) ==
    IF imageData.isNull
    THEN NullImage
    ELSE [isNull |-> FALSE,
          id |-> or(imageData.id, or(imageData.fileName,
                    or(imageData.key, Str(GeneratedId)))),
          imageUrl |-> or(imageData.imageUrl, or(imageData.url, imageData.publicUrl)),
          url |-> or(imageData.url, or(imageData.imageUrl, imageData.publicUrl)),
          publicUrl |-> or(imageData.publicUrl, or(imageData.url, imageData.imageUrl)),
          prompt |-> or(imageData.prompt,
                        or(metadataPrompt(imageData), Str(NoPromptPlaceholder))),
          createdAt |-> or(imageData.createdAt,
                           or(metadataCreatedAt(imageData), Str(IsoNow))),
          isCloudImage |-> or(imageData.isCloudImage, Bool(FALSE)),
          fileName |-> or(imageData.fileName, or(imageData.id, imageData.key)),
          cloudFileName |-> or(imageData.cloudFileName, or(imageData.fileName,
                               or(imageData.key, imageData.id))),
          metadata |-> IF imageData.metadata.t = "object" THEN imageData.metadata
                       ELSE Metadata(Undefined),
          \* every other property is copied as it is
          key |-> imageData.key,
          tags |-> imageData.tags]

\* images is [isArray, items]; filter(Boolean) drops the null entries
normalizeImageArray(images) ==
    IF ~images.isArray
    THEN <<>>
    ELSE LET kept == SelectSeq(images.items, LAMBDA img : ~img.isNull) IN
         [i \in DOMAIN kept |-> normalizeImageData(kept[i])]

\* nothing was normalized yet
NoNormOut == [op |-> "none", arg |-> NullImage, out |-> <<>>]

\* the argument: an array of raw records and nulls, or something that is no
\* array (its items are then of no account)
NormInputs ==
    /\ \E items \in SeqsUpTo(RawImages \cup {NullImage}, MaxNormLen) :
         \E isArray \in BOOLEAN :
            /\ ~isArray => items = <<>>
            /\ normIn = [isArray |-> isArray, items |-> items]
    /\ normOut = NoNormOut

\* the normalization at rest
InitNormVars == normIn = [isArray |-> TRUE, items |-> <<>>] /\ normOut = NoNormOut

normRest ==
    <<mergeVars, cacheVars, limitVars, incVars, syncVars, connVars, equivVars, testVars, envVars, apiVars>>

\* normalizeImageData(normIn.items[i])
NormalizeImageData(i) ==
    /\ normOut.op = "none"
    /\ i \in DOMAIN normIn.items
    /\ normOut' = [op |-> "data", arg |-> normIn.items[i],
                   out |-> <<normalizeImageData(normIn.items[i])>>]
    /\ UNCHANGED <<normIn, normRest>>

\* normalizeImageArray(normIn)
NormalizeImageArray ==
    /\ normOut.op = "none"
    /\ normOut' = [op |-> "array", arg |-> NullImage,
                   out |-> normalizeImageArray(normIn)]
    /\ UNCHANGED <<normIn, normRest>>

NextNormalize ==
    \/ \E i \in 1..MaxNormLen : NormalizeImageData(i)
    \/ NormalizeImageArray

----------------------------------------------------------------------------
(* part_001: the limit self-test endpoint, GET                             *)

\* the handler has not been called
IdleSelfTest == [pc |-> "idle", initialLimit |-> 0, afterIncrement |-> 0,
                 success |-> FALSE]

InitTestVars == selfTest = IdleSelfTest

\* incrementGenerationCount() of an earlier request, over before the test
EarlierIncrement ==
    /\ selfTest.pc = "idle"
    /\ IncrementGenerationCount

\* line 30: initialLimit = await checkGenerationLimit()
SelfTestInitialLimit ==
    /\ selfTest.pc = "idle"
    /\ incrementResult <= MaxCount
    /\ selfTest' = [selfTest EXCEPT !.pc = "checked",
                       !.initialLimit = checkGenerationLimit.currentCount]
    /\ limitHist' = afterCall(limitHist, FALSE)
    /\ UNCHANGED <<generation, limitRet, cacheVars, mergeVars, incVars, syncVars,
                   connVars, equivVars, normVars, envVars, apiVars>>

\* line 36: await incrementGenerationCount()
SelfTestIncrement ==
    /\ selfTest.pc = "checked"
    /\ incrementResult <= MaxCount
    /\ generation' =
          IF currentCacheType = "redis"
          THEN setCache(generation, getRedisKey(getCurrentDateString),
                        incrementResult, FALSE, CACHE_TTL_SECONDS)
          ELSE generation
    /\ limitRet' = [NoLimitRet EXCEPT !.op = "incrementGenerationCount",
                                      !.currentCount = incrementResult]
    /\ limitHist' = afterCall(limitHist, TRUE)
    /\ selfTest' = [selfTest EXCEPT !.pc = "incremented"]
    /\ UNCHANGED <<cacheVars, mergeVars, incVars, syncVars, connVars, equivVars,
                   normVars, envVars, apiVars>>

\* lines 41-48: afterIncrement = await checkGenerationLimit(), and the verdict
SelfTestAfterIncrement ==
    /\ selfTest.pc = "incremented"
    /\ selfTest' = [pc |-> "done",
                    initialLimit |-> selfTest.initialLimit,
                    afterIncrement |-> checkGenerationLimit.currentCount,
                    success |-> checkGenerationLimit.currentCount =
                                    selfTest.initialLimit + 1]
    /\ limitHist' = afterCall(limitHist, FALSE)
    /\ UNCHANGED <<generation, limitRet, cacheVars, mergeVars, incVars, syncVars,
                   connVars, equivVars, normVars, envVars, apiVars>>

NextSelfTest ==
    \/ EarlierIncrement
    \/ SelfTestInitialLimit
    \/ SelfTestIncrement
    \/ SelfTestAfterIncrement
    \/ RedisFails
    \/ RedisRecovers

----------------------------------------------------------------------------
(* The merge harness *)

\* the two argument lists, drawn from the records above
MergeInputs ==
    /\ \E l \in SeqsUpTo(ImageRecords(FALSE), MaxImages) :
         \E c \in SeqsUpTo(ImageRecords(TRUE), MaxImages - Len(l)) :
            /\ localImages = l
            /\ cloudImages = c
    /\ merged = <<>>
    /\ remerged = <<>>
    /\ mpc = "input"

\* the merge harness at rest
IdleMerge ==
    /\ localImages = <<>>
    /\ cloudImages = <<>>
    /\ merged = <<>>
    /\ remerged = <<>>
    /\ mpc = "input"

\* merged = mergeAndDeduplicateImages(localImages, cloudImages)
Merge ==
    /\ mpc = "input"
    /\ merged' \in mergeAndDeduplicateImages(localImages, cloudImages)
    /\ mpc' = "merged"
    /\ UNCHANGED <<localImages, cloudImages, remerged, cacheVars, limitVars, moreVars>>

\* remerged = mergeAndDeduplicateImages(localImages, merged)
ReMerge ==
    /\ mpc = "merged"
    /\ remerged' \in mergeAndDeduplicateImages(localImages, merged)
    /\ mpc' = "remerged"
    /\ UNCHANGED <<localImages, cloudImages, merged, cacheVars, limitVars, moreVars>>

NextMerge == Merge \/ ReMerge

\* ---- the merge with arguments of any kind -------------------------------

\* null as an entry of an argument list
NullEntry ==
    [id |-> "", fileName |-> "", cloudFileName |-> "", createdAt |-> 0,
     isCloudImage |-> FALSE, isNull |-> TRUE]
isNullEntry(img) == "isNull" \in DOMAIN img

\* an argument that is no array (null, undefined, an object)
NotAnArray == [isArray |-> FALSE, items |-> <<>>]
ArrayOf(items) == [isArray |-> TRUE, items |-> items]

\* Array.isArray(images) ? images : []
asArray(images) == IF images.isArray THEN images.items ELSE <<>>

\* if (!localImage) continue / if (!cloudImage) continue
skipNulls(images) == SelectSeq(images, LAMBDA img : ~isNullEntry(img))

\* mergeAndDeduplicateImages on arguments of any kind
mergeArguments(local, cloud) ==
    mergeAndDeduplicateImages(skipNulls(asArray(local)), skipNulls(asArray(cloud)))

\* the two arguments: arrays of records and nulls, or no arrays
MergeArguments ==
    /\ \E l \in SeqsUpTo(ImageRecords(FALSE) \cup {NullEntry}, MaxImages) :
         \E c \in SeqsUpTo(ImageRecords(TRUE) \cup {NullEntry}, MaxImages - Len(l)) :
            /\ localImages \in {ArrayOf(l)} \cup (IF l = <<>> THEN {NotAnArray} ELSE {})
            /\ cloudImages \in {ArrayOf(c)} \cup (IF c = <<>> THEN {NotAnArray} ELSE {})
    /\ merged = <<>>
    /\ remerged = <<>>
    /\ mpc = "input"

\* merged = mergeAndDeduplicateImages(localImages, cloudImages)
MergeAnyArguments ==
    /\ mpc = "input"
    /\ merged' \in mergeArguments(localImages, cloudImages)
    /\ mpc' = "merged"
    /\ UNCHANGED <<localImages, cloudImages, remerged, cacheVars, limitVars, moreVars>>

NextMergeArguments == MergeAnyArguments


\* nothing else is going on
\* no request of the API routes is under way
IdleDelete ==
    [pc |-> "idle", fileName |-> "", status |-> 0,
     objects |-> {}, metadata |-> {},
     cloud |-> FALSE, cache |-> FALSE, database |-> FALSE]

IdleGenerateRequest ==
    [pc |-> "idle", status |-> 0, provider |-> "none", incremented |-> FALSE,
     redisKey |-> 0, count |-> 0]

IdleGenerate == [reqs |-> [r \in Requests |-> IdleGenerateRequest], generated |-> 0]

IdleWriter ==
    [pc |-> "idle", op |-> "none", id |-> "", images |-> <<>>, result |-> FALSE]

IdleWriters == [w \in Requests |-> IdleWriter]

IdleUpload ==
    [pc |-> "idle", fileName |-> "", uploads |-> 0, attempts |-> 0,
     retryCount |-> 0, waited |-> 0, firstFailedInStore |-> FALSE, status |-> 0]

InitApiVars ==
    /\ deleteReq = IdleDelete
    /\ generateReqs = IdleGenerate
    /\ cacheWriters = IdleWriters
    /\ uploadReq = IdleUpload

InitMoreVars ==
    /\ InitIncVars
    /\ InitSyncVars
    /\ InitConnVars
    /\ InitEquivVars
    /\ InitNormVars
    /\ InitTestVars
    /\ InitEnvVars
    /\ InitApiVars

\* the cache as the module is loaded, with the default cache type
CacheAtStart ==
    InitCacheVars /\ InitLimitVars /\ currentCacheType = "file" /\ redisUp

InitMerge == MergeInputs /\ CacheAtStart /\ InitMoreVars

SpecMerge == InitMerge /\ [][NextMerge]_vars

InitCache == IdleMerge /\ InitCacheVars /\ InitLimitVars /\ InitMoreVars

SpecCache == InitCache /\ [][NextCache]_vars

SpecLimit == InitCache /\ [][NextLimit]_vars

SpecIncrement == InitCache /\ [][NextIncrement]_vars

SpecSync == InitCache /\ [][NextSync]_vars

\* the cache manager with the cache-type endpoint in use
NextCacheType ==
    \/ \E cacheType \in CACHE_TYPES : SetCacheType(cacheType)
    \/ \E images \in SeqsUpTo(CacheImageSet, MaxListLen) : MgrInitCache(images)
    \/ \E image \in CacheImageSet : MgrAddImageToCache(image)
    \/ MgrGetCachedImages
    \/ MgrIsCacheInitialized
    \/ TickShort

SpecCacheType == InitCache /\ [][NextCacheType]_vars

SpecRedisClient == InitCache /\ [][NextRedisClient]_vars

\* the expiry times of the keys that are set
liveExpiries == {redis[k].exp : k \in {key \in DOMAIN redis : keyLive(redis, key)}}

\* time passes until the first of the keys expires
TickToExpiry ==
    /\ liveExpiries # {}
    /\ longTicks < MaxLongTicks
    /\ TimePasses(CHOOSE t \in liveExpiries : \A u \in liveExpiries : t <= u)

\* the writes of the cache, and time
NextExpiry ==
    \/ \E images \in SeqsUpTo(CacheImageSet, MaxListLen) : MgrInitCache(images)
    \/ \E image \in CacheImageSet : MgrAddImageToCache(image)
    \/ \E imageId \in CacheImageIds : MgrRemoveImageFromCache(imageId)
    \/ \E imageId \in CacheImageIds : \E updateData \in UpdateDataSet :
          MgrUpdateImageInCache(imageId, updateData)
    \/ \E cloud \in SeqsUpTo(CacheImageSet, MaxListLen) : MgrSyncCache(<<>>, cloud)
    \/ TickShort
    \/ TickToExpiry

SpecExpiry == InitCache /\ [][NextExpiry]_vars

\* both adapters untouched, the external store reachable
InitEquiv == InitCache /\ redisUp

SpecEquiv == InitEquiv /\ [][NextEquiv]_vars

\* the program at rest, with an argument for the normalization
InitNormalize ==
    /\ IdleMerge /\ CacheAtStart
    /\ InitIncVars /\ InitSyncVars /\ InitConnVars /\ InitEquivVars
    /\ InitTestVars /\ InitEnvVars /\ InitApiVars
    /\ NormInputs

SpecNormalize == InitNormalize /\ [][NextNormalize]_vars

SpecSelfTest == InitCache /\ [][NextSelfTest]_vars

\* the limit service with a limit from the environment
InitLimitConfig ==
    /\ IdleMerge /\ InitCacheVars /\ InitLimitVars
    /\ InitIncVars /\ InitSyncVars /\ InitConnVars /\ InitEquivVars
    /\ InitNormVars /\ InitTestVars /\ InitApiVars
    /\ dailyLimit \in ConfiguredLimits

NextLimitConfig ==
    \/ IncrementGenerationCount
    \/ CheckGenerationLimit
    \/ RedisFails
    \/ RedisRecovers

SpecLimitConfig == InitLimitConfig /\ [][NextLimitConfig]_vars

\* the counter over the days, with increments at two times of a day
NextRetention ==
    \/ IncrementGenerationCount
    \/ TickShort
    \/ TickDay
    \/ RedisFails
    \/ RedisRecovers

SpecRetention == InitCache /\ [][NextRetention]_vars

\* the images added and removed one by one: two ids, two records of each
UpsertImageSet ==
    {[id |-> i, fileName |-> "", cloudFileName |-> "", createdAt |-> 1,
      isCloudImage |-> c] : i \in CacheImageIds, c \in BOOLEAN}

\* no two records of the list have the same id
uniqueIds(images) ==
    \A i, j \in DOMAIN images : images[i].id = images[j].id => i = j

\* the lists the cache starts from: one record per id
UniqueIdLists ==
    {images \in SeqsUpTo(UpsertImageSet, MaxListLen) : uniqueIds(images)}

\* adds and removes through the cache manager, one call at a time, from a
\* list with one record per id
NextUpsert ==
    \/ \E images \in UniqueIdLists : MgrInitCache(images)
    \/ \E image \in UpsertImageSet : MgrAddImageToCache(image)
    \/ \E imageId \in CacheImageIds : MgrRemoveImageFromCache(imageId)
    \/ MgrGetCachedImages
    \/ TickShort
    \/ RedisFails
    \/ RedisRecovers

SpecUpsert == InitCache /\ [][NextUpsert]_vars

InitMergeArguments == MergeArguments /\ CacheAtStart /\ InitMoreVars

SpecMergeArguments == InitMergeArguments /\ [][NextMergeArguments]_vars

----------------------------------------------------------------------------
(* Claims about the merge *)

\* the dedup key of a record: first non-empty of id, cloudFileName, fileName
dedupKey(img) == cloudKey(img)

\* C1: no two elements of mergeAndDeduplicateImages(local, remote) share the
\* same (non-empty) dedup key, and when a local and a remote record have the
\* same key no remote record with that key is in the result.
C1_MergeDedupInvariant ==
    mpc # "input" =>
        /\ \A i, j \in DOMAIN merged :
              (i # j /\ dedupKey(merged[i]) # "")
                  => dedupKey(merged[i]) # dedupKey(merged[j])
        /\ \A i \in DOMAIN localImages : \A j \in DOMAIN merged :
              (dedupKey(localImages[i]) # ""
               /\ dedupKey(localImages[i]) = dedupKey(merged[j]))
                  => ~merged[j].isCloudImage

\* C2: merge(A, merge(A, B)) = merge(A, B).
C2_MergeIdempotent ==
    mpc = "remerged" => remerged = merged

\* C3: the merge returns every kept record, and the records with a parsable
\* createdAt appear in it newest first.
C3_SortedNewestFirst ==
    mpc # "input" =>
        /\ Len(merged) = Len(mergeUnsorted(localImages, cloudImages))
        /\ \A i, j \in DOMAIN merged :
              (i < j /\ merged[i].createdAt # 0 /\ merged[j].createdAt # 0)
                  => merged[i].createdAt >= merged[j].createdAt

----------------------------------------------------------------------------
(* Claims about the cache manager and the adapters *)

\* C4: once initCache or syncCache has completed on the adapter in use, and
\* until clearCache, isCacheInitialized() returns true, from the adapter and
\* through the manager, whatever calls, time or store outages follow.
C4_InitializedMonotonic ==
    currentCacheType \in hist.initOn =>
        /\ cache_isCacheInitialized
        /\ mgr_isCacheInitialized

\* a step is a write call of the cache manager
ManagerWrite ==
    \/ \E images \in SeqsUpTo(CacheImageSet, MaxListLen) : MgrInitCache(images)
    \/ \E image \in CacheImageSet : MgrAddImageToCache(image)
    \/ \E imageId \in CacheImageIds : MgrRemoveImageFromCache(imageId)
    \/ \E imageId \in CacheImageIds : \E updateData \in UpdateDataSet :
          MgrUpdateImageInCache(imageId, updateData)
    \/ MgrClearCache
    \/ \E local \in SeqsUpTo(CacheImageSet, MaxListLen) :
          \E cloud \in SeqsUpTo(CacheImageSet, MaxListLen - Len(local)) :
             MgrSyncCache(local, cloud)

\* the manager's reads return what the adapter in use returns
ReadsReflectStore ==
    /\ mgr_getCachedImages = cache_getCachedImages
    /\ mgr_isCacheInitialized = cache_isCacheInitialized
    /\ mgr_getLastUpdated = cache_getLastUpdated
    /\ \A m \in ExpireMinutesSet :
          /\ mgr_getCacheStatus(m).images = cache_getCachedImages
          /\ mgr_getCacheStatus(m).isInitialized = cache_isCacheInitialized
          /\ mgr_getCacheStatus(m).lastUpdated = cache_getLastUpdated

\* C5: when a write call of the cache manager has completed, the manager's
\* reads return the value reflecting that write (what the adapter holds),
\* also while the memory layer is within its ttl.
C5_WritesReachMemoryLayer ==
    [][ManagerWrite => ReadsReflectStore']_vars

\* C6: when getCacheStatus() has returned less than a ttl ago and no write
\* followed, another getCacheStatus() is answered from the memory layer and
\* returns the same images and lastUpdated, in every state of the cache.
C6_SecondStatusFromMemory ==
    (lastStatus.valid /\ now - lastStatus.at < ttl) =>
        /\ statusFromMemory(memoryLevelCache)
        /\ \A m \in ExpireMinutesSet :
              /\ mgr_getCacheStatus(m).images = lastStatus.images
              /\ mgr_getCacheStatus(m).lastUpdated = lastStatus.lastUpdated

\* every call to the backing store fails
StoreFailing == currentCacheType = "redis" /\ ~redisUp

\* C7: when every call to the backing store fails and the cache was never
\* written, getCacheStatus() returns images [], isInitialized false,
\* isExpired true.
C7_StatusWhenStoreFails ==
    (StoreFailing /\ ~hist.written) =>
        \A m \in ExpireMinutesSet :
            /\ mgr_getCacheStatus(m).images = <<>>
            /\ mgr_getCacheStatus(m).isInitialized = FALSE
            /\ mgr_getCacheStatus(m).isExpired = TRUE

\* getCacheStatus() has returned with every call to the store failing, on a
\* cache never written
C7_Witness ==
    /\ StoreFailing /\ ~hist.written
    /\ lastStatus.valid /\ lastStatus.storeFailed
    /\ lastStatus.images = <<>>

\* C8: while the store is unreachable, the reads of the external key-value
\* adapter return what the in-process mirror holds: its images, its
\* isInitialized, its lastUpdated.
C8_ReadsFallBackToMirror ==
    StoreFailing =>
        /\ redis_getCachedImages(redis, memoryCache) = memoryCache.images
        /\ redis_isCacheInitialized(redis, memoryCache) = memoryCache.isInitialized
        /\ lastUpdatedTime(redis_getLastUpdated(redis, memoryCache))
              = lastUpdatedTime(memoryCache.lastUpdated)

----------------------------------------------------------------------------
(* Claims about the generation limit service *)

\* checkGenerationLimit() has just returned, on a day all of whose calls
\* found the store reachable, after n incrementGenerationCount() calls
CheckedAfter(n) ==
    /\ currentCacheType = "redis"
    /\ limitRet.op = "checkGenerationLimit"
    /\ limitHist.reachable
    /\ limitHist.increments = n

\* C9: with the limit 50 and the external key-value store, after exactly 50
\* increments of one day checkGenerationLimit() reports isLimitExceeded true
\* and remaining 0, after exactly 49 isLimitExceeded false and remaining 1.
C9_LimitBoundary ==
    /\ CheckedAfter(DAILY_GENERATION_LIMIT) =>
          limitRet.isLimitExceeded /\ limitRet.remaining = 0
    /\ CheckedAfter(DAILY_GENERATION_LIMIT - 1) =>
          ~limitRet.isLimitExceeded /\ limitRet.remaining = 1

C9_Witness ==
    /\ CheckedAfter(DAILY_GENERATION_LIMIT)
    /\ limitRet.currentCount = DAILY_GENERATION_LIMIT

\* before the first increment of a day getGenerationCount() returns 0
NewDayCountsFromZero ==
    ~limitHist.incremented => getGenerationCount = 0

\* a step changes the key of a day only on that day, or when the key expires
OtherDaysUntouched ==
    \A d \in DateStrings :
        generation'[d] # generation[d] =>
            \/ d = getCurrentDateString /\ now' = now
            \/ ~(now' < generation[d].exp)

\* C10: the counters are keyed by calendar day: whatever was counted on day
\* D, on day D+1 getGenerationCount() returns 0 until D+1 is incremented, and
\* no call made on day D+1 changes what is stored under the key of day D,
\* which goes only when its retention has elapsed.
C10_CountersKeyedPerDay ==
    []NewDayCountsFromZero /\ [][OtherDaysUntouched]_vars

\* on the day after a day with increments, with the store reachable,
\* getGenerationCount() has returned 0 and the key of the day before is kept
C10_Witness ==
    /\ currentCacheType = "redis"
    /\ getCurrentDateString = dateStringAt(StartTime) + 1
    /\ generation[dateStringAt(StartTime)].present
    /\ getCacheValue(generation, dateStringAt(StartTime)) > 0
    /\ limitRet.op = "getGenerationCount"
    /\ limitRet.currentCount = 0
    /\ limitHist.reachable /\ ~limitHist.incremented

\* the count stored under the key of today (0 when there is none)
storedCount ==
    IF generation[getRedisKey(getCurrentDateString)].present
    THEN getCacheValue(generation, getRedisKey(getCurrentDateString))
    ELSE 0

\* C11: when the incrementGenerationCount() calls of a day have all
\* completed, with the store reachable at each of them, the count stored for
\* the day is the number of the calls, however the calls interleaved.
C11_NoIncrementLost ==
    (currentCacheType = "redis" /\ limitHist.reachable /\ inProgress = {})
        => storedCount = limitHist.increments

\* a call that found the lock held returns at once and leaves the refresh in
\* progress, the lock and the cache as they are
SkipsWhileRefreshing ==
    \A t \in Triggers :
        (SyncStart(t) /\ refreshing # {}) =>
            /\ syncers'[t] = [pc |-> "idle", result |-> "skipped"]
            /\ refreshing' = refreshing
            /\ UNCHANGED <<isSyncing, cacheVars>>

memoryLayerImages == mlcImages(memoryLevelCache, imageCache, memoryCache)

\* C13: a write of the cache manager writes the backing store first and the
\* memory layer second, so that after it a reader served from the memory
\* layer sees the list the layer held before or the list the backing store
\* holds, also when the write to the backing store failed.
C13_MemoryLayerNeverAhead ==
    [][ManagerWrite =>
          (imagesFresh(memoryLevelCache)' =>
              \/ memoryLayerImages' = memoryLayerImages
              \/ memoryLayerImages' = committedImages')]_vars

\* the caller is told that the write failed
signalsFailure(result) == result = "false"

\* the list read through the manager holds the image with this id
visible(images, imageId) == \E i \in DOMAIN images : images[i].id = imageId

\* C14: addImageToCache, removeImageFromCache and updateImageInCache called
\* while the external store rejects the write signal the failure to their
\* caller, and the change is visible to the reads that follow.
C14_WriteFailureReported ==
    [][StoreFailing =>
          /\ \A image \in CacheImageSet :
                MgrAddImageToCache(image) =>
                    /\ signalsFailure(mgr_addImageToCache_result(image))
                    /\ visible(mgr_getCachedImages', image.id)
          /\ \A imageId \in CacheImageIds :
                (MgrRemoveImageFromCache(imageId)
                 /\ visible(cache_getCachedImages, imageId)) =>
                    /\ signalsFailure(mgr_removeImageFromCache_result(imageId))
                    /\ ~visible(mgr_getCachedImages', imageId)
          /\ \A imageId \in CacheImageIds : \A updateData \in UpdateDataSet :
                (MgrUpdateImageInCache(imageId, updateData)
                 /\ visible(cache_getCachedImages, imageId)) =>
                    signalsFailure(mgr_updateImageInCache_result(imageId, updateData))]_vars

\* C15: the adapter in use is chosen once, when the module is loaded: it
\* never changes afterwards, and the list the memory layer holds is a list
\* of the adapter in use.
C15_AdapterFixed ==
    /\ [][currentCacheType' = currentCacheType]_vars
    /\ [](memoryLevelCache.hasImages =>
             /\ memoryLevelCache.alias = "file" => currentCacheType = "file"
             /\ memoryLevelCache.alias = "mirror" => currentCacheType = "redis")

----------------------------------------------------------------------------
(* Claims about the redis connection *)

\* the callers still awaiting a connection
awaiting == {c \in Callers : callers[c].pc = "waiting"}

\* C16: under every interleaving of getRedisClient() calls, connection
\* errors included, at most one client is being connected at a time and
\* the callers awaiting a connection all await the same one
C16_SingleFlightConnection ==
    /\ Cardinality(connecting) <= 1
    /\ \A c, d \in awaiting : callers[c].promise = callers[d].promise

\* the delays a client has waited are the capped linear ones, in order
delaysAsSpecified(k) ==
    \A i \in DOMAIN clients[k].delays :
        /\ clients[k].delays[i] =
              (IF (i - 1) * RetryStepMs < MaxDelayMs THEN (i - 1) * RetryStepMs ELSE MaxDelayMs)
        /\ i > 1 => clients[k].delays[i - 1] <= clients[k].delays[i]

----------------------------------------------------------------------------
(* Claims about the expiry of the envelope keys *)

\* C18: the three keys of the envelope in the external store are all live
\* or all gone, whatever was written and however much time has passed
C18_SharedExpiry ==
    /\ keyLive(redis, "images") <=> keyLive(redis, "lastUpdated")
    /\ keyLive(redis, "images") <=> keyLive(redis, "isInitialized")

----------------------------------------------------------------------------
(* Claims about the two adapters *)

\* the two adapters hold the same image list and the same initialized flag
AdaptersHoldTheSame ==
    /\ file_getCachedImages(imageCache) = redis_getCachedImages(redis, memoryCache)
    /\ file_isCacheInitialized(imageCache) = redis_isCacheInitialized(redis, memoryCache)

\* C19: whatever calls were made with the same arguments, the two adapters
\* returned the same result to the last call and hold the same image list
\* and the same initialized flag
C19_AdaptersAgree ==
    /\ adapterRet.file = adapterRet.redis
    /\ AdaptersHoldTheSame

----------------------------------------------------------------------------
(* Claims about the normalization *)

\* the list has no null entry
noNulls(images) == \A i \in DOMAIN images : ~images[i].isNull

\* C20: a normalized record has the placeholder as prompt when the raw one
\* has none (neither its own nor in its metadata), and a list as tags, the
\* empty one when the raw record has no tags; normalizeImageArray gives the
\* empty list for what is no array, and drops the null entries
C20_NormalizationDefaults ==
    /\ (normOut.op = "data" /\ ~normOut.arg.isNull) =>
          /\ (~truthy(normOut.arg.prompt) /\ ~truthy(metadataPrompt(normOut.arg)))
                => normOut.out[1].prompt = Str(NoPromptPlaceholder)
          /\ normOut.arg.tags = Undefined => normOut.out[1].tags = List(<<>>)
          /\ normOut.out[1].tags.t = "list"
    /\ normOut.op = "array" =>
          /\ ~normIn.isArray => normOut.out = <<>>
          /\ noNulls(normOut.out)

----------------------------------------------------------------------------
(* Claims about the limit service without an exact count *)

\* no exact count can be had: the file adapter is active, or the external
\* store cannot be reached
noExactCount == currentCacheType = "file" \/ ~redisUp

\* a call made without an exact count returns the conservative answer
ConservativeAnswer ==
    /\ (noExactCount /\ GetGenerationCount) => limitRet'.currentCount = 0
    /\ (noExactCount /\ CheckGenerationLimit) =>
          /\ limitRet'.currentCount = 0
          /\ ~limitRet'.isLimitExceeded
          /\ limitRet'.limit = DAILY_GENERATION_LIMIT
          /\ limitRet'.remaining = DAILY_GENERATION_LIMIT

----------------------------------------------------------------------------
(* Claims about the counter of a day *)

\* the count stored under a key (0 when there is none)
storedUnder(gen, redisKey) ==
    IF gen[redisKey].present THEN getCacheValue(gen, redisKey) ELSE 0

\* the write of request r reaches the store and leaves there the count that
\* was there before, plus one
WriteAddsOne ==
    \A r \in Requests :
        (redisUp /\ IncrementWrite(r)) =>
            storedUnder(generation', incrementers[r].redisKey) =
                storedUnder(generation, incrementers[r].redisKey) + 1

\* C22: under every interleaving of incrementGenerationCount() calls the
\* count stored for a day goes absent, 1, 2, 3, ...: each write stores one
\* more than was stored before it, and the stored count never goes down
C22_CounterOnlyCountsUp == [][WriteAddsOne]_vars

----------------------------------------------------------------------------
(* Claims about the limit self-test *)

\* C23: when the self-test has run with no other request in between, the
\* count it saw after its increment is the count it saw before, plus one,
\* whichever adapter is active and whatever the state of the store
C23_SelfTestSucceeds ==
    selfTest.pc = "done" =>
        /\ selfTest.afterIncrement = selfTest.initialLimit + 1
        /\ selfTest.success

----------------------------------------------------------------------------
(* Claims about what the merge keeps *)

\* the local and the remote records handed over (remote: nulls in place)
givenLocal == skipNulls(asArray(localImages))
givenRemote == asArray(cloudImages)

\* the key of a remote record: the first non-empty of id, cloudFileName,
\* fileName
remoteKey(img) ==
    CASE img.id # "" -> img.id
      [] img.cloudFileName # "" -> img.cloudFileName
      [] OTHER -> img.fileName

\* the record has none of id, fileName, cloudFileName
nameless(img) == img.id = "" /\ img.fileName = "" /\ img.cloudFileName = ""

\* the remote record at j is to be kept
remoteToKeep(j) ==
    /\ ~isNullEntry(givenRemote[j])
    /\ remoteKey(givenRemote[j]) # ""
    /\ \A i \in DOMAIN givenLocal :
          /\ givenLocal[i].fileName # remoteKey(givenRemote[j])
          /\ givenLocal[i].cloudFileName # remoteKey(givenRemote[j])
    /\ \A i \in 1..(j - 1) :
          isNullEntry(givenRemote[i])
             \/ remoteKey(givenRemote[i]) # remoteKey(givenRemote[j])

\* how often x is in s
occurrences(s, x) == Cardinality({i \in DOMAIN s : s[i] = x})

\* the scenario of the specification, with 1, 2, 3 for the three dates
ScenarioLocalA ==
    [id |-> "a.png", fileName |-> "a.png", cloudFileName |-> "", createdAt |-> 2,
     isCloudImage |-> FALSE]
ScenarioRemoteA ==
    [id |-> "a.png", fileName |-> "", cloudFileName |-> "a.png", createdAt |-> 1,
     isCloudImage |-> TRUE]
ScenarioRemoteB ==
    [id |-> "b.png", fileName |-> "", cloudFileName |-> "b.png", createdAt |-> 3,
     isCloudImage |-> TRUE]

C25_MergeDegenerateInput ==
    mpc = "merged" =>
        /\ ~localImages.isArray =>
              \A i \in DOMAIN merged : merged[i].isCloudImage
        /\ ~cloudImages.isArray =>
              \A i \in DOMAIN merged : ~merged[i].isCloudImage
        /\ (~localImages.isArray /\ ~cloudImages.isArray) => merged = <<>>
        /\ \A i \in DOMAIN givenLocal :
              nameless(givenLocal[i]) =>
                  occurrences(merged, givenLocal[i]) = occurrences(givenLocal, givenLocal[i])
        /\ \A i \in DOMAIN merged :
              merged[i].isCloudImage => ~nameless(merged[i])

\* merges of degenerate input: a local argument that is no array with a
\* remote record kept, and a nameless record on each side
C25_Witness ==
    /\ mpc = "merged"
    /\ \/ /\ ~localImages.isArray
          /\ Len(merged) > 0
       \/ /\ \E i \in DOMAIN givenLocal : nameless(givenLocal[i])
          /\ \E j \in DOMAIN givenRemote :
                ~isNullEntry(givenRemote[j]) /\ nameless(givenRemote[j])
          /\ Len(merged) = Len(givenLocal)

----------------------------------------------------------------------------
(* Claims about isExpired *)

\* the status is as old as its lastUpdated says: absent, or more than
\* cacheExpireMinutes ago
olderThan(status, cacheExpireMinutes) ==
    \/ status.lastUpdated.kind = "null"
    \/ now - status.lastUpdated.t > cacheExpireMinutes * 60000

----------------------------------------------------------------------------
(* Claims about the answer of checkGenerationLimit *)

\* what checkGenerationLimit() returned agrees with the limit configured
AnswerByLimit ==
    limitRet.op = "checkGenerationLimit" =>
        /\ limitRet.limit = dailyLimit
        /\ limitRet.isLimitExceeded <=> limitRet.currentCount >= dailyLimit
        /\ limitRet.remaining =
              (IF dailyLimit > limitRet.currentCount
               THEN dailyLimit - limitRet.currentCount ELSE 0)
        /\ limitRet.remaining >= 0
        /\ dailyLimit > 0 => (limitRet.isLimitExceeded <=> limitRet.remaining = 0)

\* a check that reads the store returns the count stored for the day
AnswerByStoredCount ==
    (currentCacheType = "redis" /\ redisUp /\ CheckGenerationLimit) =>
        limitRet'.currentCount = storedUnder(generation, getRedisKey(getCurrentDateString))

\* C27: with the count c stored and the limit L configured,
\* checkGenerationLimit() returns currentCount c, limit L, isLimitExceeded
\* (c >= L) and remaining max(0, L - c): remaining is never negative and,
\* for L > 0, it is 0 exactly when the limit is exceeded
C27_LimitArithmetic == []AnswerByLimit /\ [][AnswerByStoredCount]_vars

\* checkGenerationLimit() has answered with a stored count above the limit
C27_Witness ==
    /\ currentCacheType = "redis" /\ redisUp
    /\ limitRet.op = "checkGenerationLimit"
    /\ dailyLimit > 0
    /\ limitRet.currentCount = storedUnder(generation, getRedisKey(getCurrentDateString))
    /\ limitRet.currentCount > dailyLimit
    /\ limitRet.remaining = 0

----------------------------------------------------------------------------
(* Claims about the retention of the counter *)

\* two days, in ms
TwoDaysMs == 2 * DayMs

\* an increment that reaches the store leaves the key of the day to expire
\* two days from now
WriteRenewsRetention ==
    (currentCacheType = "redis" /\ redisUp /\ IncrementGenerationCount) =>
        /\ generation'[getRedisKey(getCurrentDateString)].present
        /\ generation'[getRedisKey(getCurrentDateString)].exp = now + TwoDaysMs

\* a key goes only when its two days are over, and stays no longer
GoesOnlyByExpiry ==
    \A d \in DateStrings :
        generation[d].present =>
            (generation'[d].present <=> now' < generation'[d].exp)
            /\ (~generation'[d].present => now' >= generation[d].exp)

\* C28: every increment written sets the key of the day to expire two days
\* later, so the key lasts until two days after the last increment; it goes
\* exactly then, and by nothing else
C28_SlidingRetention == [][WriteRenewsRetention /\ GoesOnlyByExpiry]_vars

\* the key of today was written a second time, later than the first, and
\* expires two days from this second write
C28_Witness ==
    /\ currentCacheType = "redis"
    /\ shortTicks = 1
    /\ generation[getRedisKey(getCurrentDateString)].present
    /\ getCacheValue(generation, getRedisKey(getCurrentDateString)) >= 2
    /\ generation[getRedisKey(getCurrentDateString)].exp = now + TwoDaysMs
    /\ limitRet.op = "incrementGenerationCount"

----------------------------------------------------------------------------
(* Claims about adding and removing one image *)

\* the list holds a record with the id
holdsId(images, imageId) == \E i \in DOMAIN images : images[i].id = imageId

\* the list with image in the place of the record of its id, or at the end
withImage(images, image) ==
    IF holdsId(images, image.id)
    THEN [i \in DOMAIN images |->
             IF images[i].id = image.id THEN image ELSE images[i]]
    ELSE images \o <<image>>

\* the adapter in use has stamped lastUpdated with the time of the call
stampedNow ==
    IF currentCacheType = "file"
    THEN imageCache.lastUpdated = DateObject(now)
    ELSE /\ memoryCache.lastUpdated = toISOString(now)
         /\ redisUp => cache_getLastUpdated = toISOString(now)

\* the lists of the adapter, of the store and of the memory layer have one
\* record per id at most
OneRecordPerId ==
    /\ uniqueIds(cache_getCachedImages)
    /\ uniqueIds(committedImages)
    /\ memoryLevelCache.hasImages =>
          uniqueIds(mlcImages(memoryLevelCache, imageCache, memoryCache))

\* addImageToCache(image) leaves the adapter's list with image in the place
\* of the record of its id, or at the end, and lastUpdated stamped
AddIsUpsert ==
    \A image \in UpsertImageSet :
        MgrAddImageToCache(image) =>
            /\ cache_getCachedImages' = withImage(cache_getCachedImages, image)
            /\ stampedNow'

RemoveAsReported ==
    \A imageId \in CacheImageIds :
        MgrRemoveImageFromCache(imageId) =>
            /\ mgr_removeImageFromCache_result(imageId) = "true"
                  <=> holdsId(cache_getCachedImages, imageId)
            /\ ~holdsId(cache_getCachedImages', imageId)
            /\ mgr_removeImageFromCache_result(imageId) = "true"
                  => ~holdsId(committedImages', imageId)
            /\ mgr_removeImageFromCache_result(imageId) = "false" =>
                  /\ cache_getCachedImages' = cache_getCachedImages
                  /\ cache_getLastUpdated' = cache_getLastUpdated

\* C30: removeImageFromCache(id) returns true exactly when a record of the id
\* was stored and has been removed, no record of the id is in the list
\* afterwards, and a call that returns false changes neither the list nor
\* lastUpdated
C30_RemoveReportsRemoval == [][RemoveAsReported]_vars

----------------------------------------------------------------------------
(* Claims about updating one image and clearing the cache *)

\* images with the fields of updateData laid over the first record of the
\* id, every other field and every other record as before
withFields(images, imageId, updateData) ==
    LET first == CHOOSE i \in DOMAIN images :
                    /\ images[i].id = imageId
                    /\ \A j \in 1..(i - 1) : images[j].id # imageId
    IN  [i \in DOMAIN images |->
            IF i = first
            THEN [f \in DOMAIN images[i] \cup DOMAIN updateData |->
                     IF f \in DOMAIN updateData THEN updateData[f]
                     ELSE images[i][f]]
            ELSE images[i]]

\* updateImageInCache(imageId, updateData) returns true exactly when the
\* list holds the id; then the adapter's list and the store hold the record
\* with the fields laid over it; otherwise the list and lastUpdated are as
\* before
UpdateAsReported ==
    \A imageId \in CacheImageIds : \A updateData \in UpdateDataSet :
        MgrUpdateImageInCache(imageId, updateData) =>
            LET found == holdsId(cache_getCachedImages, imageId)
                expected == withFields(cache_getCachedImages, imageId, updateData)
            IN  /\ mgr_updateImageInCache_result(imageId, updateData) = "true"
                      <=> found
                /\ found => /\ cache_getCachedImages' = expected
                            /\ committedImages' = expected
                /\ ~found => /\ cache_getCachedImages' = cache_getCachedImages
                             /\ cache_getLastUpdated' = cache_getLastUpdated

UpdateAsReadBack ==
    \A imageId \in CacheImageIds : \A updateData \in UpdateDataSet :
        MgrUpdateImageInCache(imageId, updateData) =>
            LET found == holdsId(cache_getCachedImages, imageId) IN
            /\ mgr_updateImageInCache_result(imageId, updateData) = "true"
                  <=> found
            /\ found => cache_getCachedImages' =
                            withFields(cache_getCachedImages, imageId, updateData)
            /\ ~found => /\ cache_getCachedImages' = cache_getCachedImages
                         /\ cache_getLastUpdated' = cache_getLastUpdated

UpdateReadBackHolds == [][UpdateAsReadBack]_vars

\* the adapter in use holds the cleared envelope: no image, not initialized,
\* lastUpdated of this instant (in the mirror, and in the store when it
\* can be reached)
clearedEnvelope ==
    IF currentCacheType = "file"
    THEN imageCache = [images |-> <<>>, lastUpdated |-> DateObject(now),
                       isInitialized |-> FALSE]
    ELSE /\ memoryCache = [images |-> <<>>, lastUpdated |-> toISOString(now),
                           isInitialized |-> FALSE]
         /\ redisUp =>
               /\ getCacheHit(redis, "images")
               /\ getCacheValue(redis, "images") = <<>>
               /\ getCacheHit(redis, "isInitialized")
               /\ getCacheValue(redis, "isInitialized") = FALSE
               /\ cache_getLastUpdated = toISOString(now)

\* clearCache() leaves the cleared envelope in the adapter
ClearEmptiesAdapter == MgrClearCache => clearedEnvelope'

\* the reads of the cache manager after clearCache(): no image, not
\* initialized
ClearSeenByReads ==
    MgrClearCache => /\ mgr_getCachedImages' = <<>>
                     /\ mgr_isCacheInitialized' = FALSE

\* C32: clearCache() leaves an empty list, isInitialized false and a fresh
\* lastUpdated in the adapter in use (in the mirror when the store cannot be
\* reached), and a read of the cache manager after it reports an empty list
\* and isInitialized false
C32_ClearResetsEnvelope ==
    [][ClearEmptiesAdapter]_vars /\ [][ClearSeenByReads]_vars

ClearEmptiesAdapterHolds == [][ClearEmptiesAdapter]_vars

----------------------------------------------------------------------------
(* Claims about syncCache *)

\* the lists syncCache is called with: local records of one file, remote
\* records without id, some of them of the same file as a local record
SyncLocalSet ==
    {r \in ImageRecords(FALSE) :
        r.id = "a" /\ r.fileName = "a" /\ r.createdAt = 1}

SyncCloudSet ==
    {r \in ImageRecords(TRUE) :
        /\ r.id = ""
        /\ \/ r.fileName = "a" /\ r.cloudFileName = "" /\ r.createdAt = 2
           \/ r.fileName = "" /\ r.cloudFileName = "b" /\ r.createdAt \in {0, 2}}

SyncLocalLists == SeqsUpTo(SyncLocalSet, MaxListLen)
SyncCloudLists == SeqsUpTo(SyncCloudSet, MaxImages - 1)

\* syncCache calls of the cache manager, one at a time
NextSyncCache ==
    \/ \E local \in SyncLocalLists : \E cloud \in SyncCloudLists :
          MgrSyncCache(local, cloud)
    \/ TickShort
    \/ RedisFails
    \/ RedisRecovers

SpecSyncCache == InitCache /\ [][NextSyncCache]_vars

\* the adapter in use is as initCache(images) leaves it, called at this
\* instant on the adapter as it was before
asAfterInitCache(images) ==
    IF currentCacheType = "file"
    THEN imageCache' = file_initCache(imageCache, images)
    ELSE /\ redis' = redis_initCache(redis, memoryCache, images).rd
         /\ memoryCache' = redis_initCache(redis, memoryCache, images).mc

\* the adapter holds images, isInitialized true and lastUpdated of this
\* instant
holdsSynced(images) ==
    IF currentCacheType = "file"
    THEN imageCache = [images |-> images, lastUpdated |-> DateObject(now),
                       isInitialized |-> TRUE]
    ELSE /\ memoryCache = [images |-> images, lastUpdated |-> toISOString(now),
                           isInitialized |-> TRUE]
         /\ redisUp => /\ cache_getCachedImages = images
                       /\ cache_isCacheInitialized
                       /\ cache_getLastUpdated = toISOString(now)

\* syncCache(local, cloud) leaves the adapter as initCache of a merge result
\* does, whether or not data/cache.json was written
SyncIsInitOfMerge ==
    \A local \in SyncLocalLists : \A cloud \in SyncCloudLists :
        MgrSyncCache(local, cloud) =>
            \E mergedImages \in mergeAndDeduplicateImages(local, cloud) :
                /\ asAfterInitCache(mergedImages)
                /\ holdsSynced(mergedImages)'
                /\ cacheFile' # cacheFile =>
                      /\ currentCacheType = "file"
                      /\ cacheFile'.images = mergedImages

\* C33: syncCache(local, remote) leaves the adapter as
\* initCache(merge(local, remote)) does: the images are the merge result,
\* isInitialized is true and lastUpdated is stamped; in the file variant
\* this is so too when the snapshot file could not be written
C33_SyncIsInitOfMerge == [][SyncIsInitOfMerge]_vars

\* the file variant has synced two lists into one of two images, and the
\* snapshot file was not written
C33_Witness ==
    /\ currentCacheType = "file"
    /\ hist.written
    /\ imageCache.isInitialized
    /\ Len(imageCache.images) = 2
    /\ \E i, j \in DOMAIN imageCache.images :
          ~imageCache.images[i].isCloudImage /\ imageCache.images[j].isCloudImage
    /\ ~cacheFile.exists

----------------------------------------------------------------------------
(* part_012 68-145: handleDeleteImage(), the DELETE request of the images  *)
(* endpoint, with its three awaits: deleteImage (object storage),          *)
(* removeImageFromCache (cache manager), deleteImageFromSupabase (metadata *)
(* store). deleteReq.objects and deleteReq.metadata are the keys the       *)
(* object storage and the metadata store hold.                             *)

\* the fileName query parameters: none, and the key of an image
DeleteFileNames == {"", "a"}

\* the image the upload of the file "a" left in the cache
UploadedImage(fileName) ==
    [id |-> fileName, fileName |-> fileName, cloudFileName |-> fileName,
     createdAt |-> 1, isCloudImage |-> TRUE]

deleteRest ==
    <<mergeVars, limitVars, incVars, syncVars, connVars, equivVars, normVars,
      testVars, envVars, generateReqs, cacheWriters, uploadReq>>

\* before the request: the image is in the object storage, in the cache and
\* in the metadata store
StoredBeforeDelete ==
    /\ deleteReq.pc = "idle"
    /\ deleteReq.objects = {}
    /\ \E fileName \in DeleteFileNames \ {""} :
          /\ initCacheCall(<<UploadedImage(fileName)>>)
          /\ deleteReq' = [deleteReq EXCEPT !.objects = {fileName},
                                            !.metadata = {fileName}]
    /\ UNCHANGED deleteRest

\* lines 69-74: the request arrives; without fileName it is answered 400
DeleteStart(fileName) ==
    /\ deleteReq.pc = "idle"
    /\ deleteReq.objects # {}
    /\ deleteReq' =
          IF fileName = ""
          THEN [deleteReq EXCEPT !.pc = "done", !.status = 400]
          ELSE [deleteReq EXCEPT !.pc = "cloud", !.fileName = fileName]
    /\ UNCHANGED <<cacheVars, deleteRest>>

\* lines 86-97: deleteImage(fileName) returns: the object is gone
DeleteCloudDone ==
    /\ deleteReq.pc = "cloud"
    /\ deleteReq' = [deleteReq EXCEPT
                        !.pc = "cache", !.cloud = TRUE,
                        !.objects = @ \ {deleteReq.fileName}]
    /\ UNCHANGED <<cacheVars, deleteRest>>

\* lines 92-96 and 136-143: deleteImage(fileName) throws: answered 500
DeleteCloudFails ==
    /\ deleteReq.pc = "cloud"
    /\ deleteReq' = [deleteReq EXCEPT !.pc = "done", !.status = 500]
    /\ UNCHANGED <<cacheVars, deleteRest>>

\* lines 99-110: removeImageFromCache(fileName) of the cache manager, which
\* does not throw (both adapters catch)
DeleteCache ==
    /\ deleteReq.pc = "cache"
    /\ removeImageFromCacheCall(deleteReq.fileName)
    /\ deleteReq' = [deleteReq EXCEPT !.pc = "database", !.cache = TRUE]
    /\ UNCHANGED deleteRest

\* lines 112-123 and 126-135: deleteImageFromSupabase(fileName) returns or
\* throws; either way the request is answered 200
DeleteDatabase ==
    /\ deleteReq.pc = "database"
    /\ \E ok \in BOOLEAN :
          deleteReq' = [deleteReq EXCEPT
                           !.pc = "done", !.status = 200, !.database = ok,
                           !.metadata = IF ok THEN @ \ {deleteReq.fileName}
                                        ELSE @]
    /\ UNCHANGED <<cacheVars, deleteRest>>

NextDelete ==
    \/ StoredBeforeDelete
    \/ \E fileName \in DeleteFileNames : DeleteStart(fileName)
    \/ DeleteCloudDone
    \/ DeleteCloudFails
    \/ DeleteCache
    \/ DeleteDatabase
    \/ MgrGetCachedImages
    \/ TickShort
    \/ RedisFails
    \/ RedisRecovers

SpecDelete == InitCache /\ [][NextDelete]_vars

----------------------------------------------------------------------------
(* Claims about the DELETE request *)

\* the steps were taken in order, the object storage first
DeleteInOrder ==
    /\ deleteReq.cache => deleteReq.cloud
    /\ deleteReq.database => deleteReq.cache
    /\ deleteReq.status = 200 =>
          deleteReq.cloud /\ deleteReq.fileName \notin deleteReq.objects

\* answered 500: the cache and the metadata store were not touched
DeleteFailedLeavesAll ==
    deleteReq.status = 500 =>
        /\ ~deleteReq.cache /\ ~deleteReq.database
        /\ deleteReq.fileName \in deleteReq.metadata
        /\ holdsId(cache_getCachedImages, deleteReq.fileName)

\* answered 200: no read of the cache manager returns the image
DeletedFromReads ==
    deleteReq.status = 200 =>
        /\ ~holdsId(mgr_getCachedImages, deleteReq.fileName)
        /\ \A cacheExpireMinutes \in ExpireMinutesSet :
              ~holdsId(mgr_getCacheStatus(cacheExpireMinutes).images,
                       deleteReq.fileName)

\* C34: the DELETE request removes the object from the object storage
\* first; when that fails it answers with an error and the cache and the
\* metadata store are as before; when it succeeds the cache and the metadata
\* store follow, their failures do not fail the request, and after the
\* success response no read of the cache manager returns the image
C34_DeleteCascades == DeleteInOrder /\ DeleteFailedLeavesAll /\ DeletedFromReads

DeleteOrderHolds == DeleteInOrder /\ DeleteFailedLeavesAll

----------------------------------------------------------------------------
(* app/api/generate/route.js 9-96: POST, of several requests. A request    *)
(* gives way at its awaits: checkGenerationLimit(), generateImage(), the   *)
(* getCache and the setCache of incrementGenerationCount(), and the second *)
(* checkGenerationLimit(). generateReqs.generated counts the images the    *)
(* provider has generated.                                                 *)

generateRest ==
    <<mergeVars, incVars, syncVars, connVars, equivVars, normVars, testVars,
      envVars, deleteReq, cacheWriters, uploadReq>>

\* the limit service's variables after a call that writes nothing
afterLimitRead ==
    /\ limitHist' = afterCall(limitHist, FALSE)
    /\ UNCHANGED <<generation, limitRet>>

generateStep(r, req) ==
    generateReqs' = [generateReqs EXCEPT !.reqs[r] = req]

\* lines 23-36: checkGenerationLimit(); over the limit the answer is 429
GenerateCheck(r) ==
    /\ generateReqs.reqs[r].pc = "idle"
    /\ generateStep(r,
          IF checkGenerationLimit.isLimitExceeded
          THEN [generateReqs.reqs[r] EXCEPT !.pc = "done", !.status = 429]
          ELSE [generateReqs.reqs[r] EXCEPT !.pc = "generateImage"])
    /\ afterLimitRead
    /\ UNCHANGED <<currentCacheType, now, redisUp, cacheRest, generateRest>>

\* line 40: generateImage(prompt) returns an image
GenerateImageDone(r) ==
    /\ generateReqs.reqs[r].pc = "generateImage"
    /\ generateReqs' =
          [generateReqs EXCEPT
              !.reqs[r] = [@ EXCEPT !.pc = "getCache", !.provider = "ok"],
              !.generated = @ + 1]
    /\ UNCHANGED <<cacheVars, limitVars, generateRest>>

\* lines 61-63 and 65-95: generateImage(prompt) throws; the answer is 500
GenerateImageFails(r) ==
    /\ generateReqs.reqs[r].pc = "generateImage"
    /\ generateStep(r, [generateReqs.reqs[r] EXCEPT
                            !.pc = "done", !.status = 500, !.provider = "failed"])
    /\ UNCHANGED <<cacheVars, limitVars, generateRest>>

\* line 44, generationLimitService.js 83-97: incrementGenerationCount() up
\* to its read of the key; with the file adapter it returns 1 at once
GenerateIncrementRead(r) ==
    /\ generateReqs.reqs[r].pc = "getCache"
    /\ IF currentCacheType = "redis"
       THEN /\ generateStep(r, [generateReqs.reqs[r] EXCEPT
                    !.pc = "setCache",
                    !.redisKey = getRedisKey(getCurrentDateString),
                    !.count = incrementResult])
            /\ afterLimitRead
       ELSE /\ generateStep(r, [generateReqs.reqs[r] EXCEPT
                    !.pc = "checkAgain", !.incremented = TRUE])
            /\ limitRet' = [NoLimitRet EXCEPT !.op = "incrementGenerationCount",
                                              !.currentCount = 1]
            /\ limitHist' = afterCall(limitHist, TRUE)
            /\ UNCHANGED generation
    /\ UNCHANGED <<currentCacheType, now, redisUp, cacheRest, generateRest>>

\* generationLimitService.js 101-104: setCache(redisKey, count, ttl)
GenerateIncrementWrite(r) ==
    /\ generateReqs.reqs[r].pc = "setCache"
    /\ generation' = setCache(generation, generateReqs.reqs[r].redisKey,
                              generateReqs.reqs[r].count, FALSE, CACHE_TTL_SECONDS)
    /\ limitRet' = [NoLimitRet EXCEPT !.op = "incrementGenerationCount",
                                      !.currentCount = generateReqs.reqs[r].count]
    /\ limitHist' = afterCall(limitHist, TRUE)
    /\ generateStep(r, [generateReqs.reqs[r] EXCEPT
                            !.pc = "checkAgain", !.incremented = TRUE])
    /\ UNCHANGED <<currentCacheType, now, redisUp, cacheRest, generateRest>>

\* lines 49-60: the second checkGenerationLimit() and the answer 200
GenerateRespond(r) ==
    /\ generateReqs.reqs[r].pc = "checkAgain"
    /\ generateStep(r, [generateReqs.reqs[r] EXCEPT !.pc = "done", !.status = 200])
    /\ afterLimitRead
    /\ UNCHANGED <<currentCacheType, now, redisUp, cacheRest, generateRest>>

NextGenerate ==
    \/ \E r \in Requests : GenerateCheck(r)
    \/ \E r \in Requests : GenerateImageDone(r)
    \/ \E r \in Requests : GenerateImageFails(r)
    \/ \E r \in Requests : GenerateIncrementRead(r)
    \/ \E r \in Requests : GenerateIncrementWrite(r)
    \/ \E r \in Requests : GenerateRespond(r)
    \/ RedisFails
    \/ RedisRecovers

SpecGenerate == InitLimitConfig /\ [][NextGenerate]_vars

----------------------------------------------------------------------------
(* Claims about the generate endpoint *)

\* a request that finds the count at the limit is answered 429, and the
\* counter and the provider are left alone
QuotaAnswered429 ==
    \A r \in Requests :
        GenerateCheck(r) /\ getGenerationCount >= dailyLimit =>
            /\ generateReqs'.reqs[r].status = 429
            /\ generateReqs'.reqs[r].pc = "done"
            /\ generateReqs'.generated = generateReqs.generated
            /\ UNCHANGED generation

\* the counter is written only by the increment of a request whose image
\* the provider has generated
CounterOnlyAfterProvider ==
    generation' # generation =>
        \E r \in Requests :
            /\ GenerateIncrementWrite(r)
            /\ generateReqs.reqs[r].provider = "ok"

\* what a request has done, by its answer
AnswersTellTheWork ==
    \A r \in Requests :
        LET req == generateReqs.reqs[r] IN
        /\ req.status = 429 => req.provider = "none" /\ ~req.incremented
        /\ req.provider = "failed" => req.status = 500 /\ ~req.incremented
        /\ req.incremented => req.provider = "ok"
        /\ req.status = 200 => req.provider = "ok" /\ req.incremented

\* C35: over the limit the generate request is answered 429, without a call
\* of the provider and without a change of the counter; the counter is
\* incremented only after the provider has generated the image, and a
\* failed provider call leaves it unchanged
C35_QuotaIsAnOutcome ==
    /\ []AnswersTellTheWork
    /\ [][QuotaAnswered429]_vars
    /\ [][CounterOnlyAfterProvider]_vars

\* one request was answered 200 after its increment, another 429, with a
\* limit of images that is not zero
C35_Witness ==
    /\ dailyLimit > 0
    /\ \E r1, r2 \in Requests :
          /\ generateReqs.reqs[r1].status = 200
          /\ generateReqs.reqs[r1].incremented
          /\ generateReqs.reqs[r2].status = 429

\* C36: with the store of the counter reachable at every call, the images
\* generated on a day are never more than the daily limit, however the
\* requests interleave
C36_NeverOverLimit ==
    currentCacheType = "redis" /\ limitHist.reachable =>
        generateReqs.generated <= dailyLimit

----------------------------------------------------------------------------
(* redisCacheService.js 106-239: addImageToCache and removeImageFromCache  *)
(* of several callers. A call gives way at its awaits: at                  *)
(* getCachedImages(), after which it holds the list it has read and        *)
(* changed, and at its setCache calls.                                     *)

\* the image each caller adds or removes: one id per caller
WriterImage(w) ==
    [id |-> IF w = 1 THEN "a" ELSE IF w = 2 THEN "c" ELSE "e",
     fileName |-> "", cloudFileName |-> "", createdAt |-> 1,
     isCloudImage |-> FALSE]

writersRest ==
    <<mergeVars, limitVars, incVars, syncVars, connVars, equivVars, normVars,
      testVars, envVars, deleteReq, generateReqs, uploadReq>>

\* before the calls: the cache holds the images of some of the callers
StoredBeforeWrites ==
    /\ ~hist.written
    /\ \E ws \in SUBSET Requests :
          \E images \in [1..Cardinality(ws) -> {WriterImage(w) : w \in ws}] :
             /\ uniqueIds(images)
             /\ initCacheCall(images)
    /\ UNCHANGED writersRest
    /\ UNCHANGED cacheWriters

\* addImageToCache 106-131: the list getCachedImages() returned, with the
\* image put in; a list that is memoryCache.images itself changes in place
WriterAddRead(w) ==
    /\ cacheWriters[w].pc = "idle"
    /\ hist.written
    /\ LET images == upsertImage(redis_getCachedImages(redis, memoryCache),
                                 WriterImage(w)) IN
       /\ cacheWriters' = [cacheWriters EXCEPT ![w] =
              [pc |-> "setCache", op |-> "add", id |-> WriterImage(w).id,
               images |-> images, result |-> FALSE]]
       /\ memoryCache' = IF redisImagesFromStore(redis) THEN memoryCache
                         ELSE [memoryCache EXCEPT !.images = images]
    /\ UNCHANGED <<currentCacheType, now, imageCache, cacheFile, redis, redisUp,
                   memoryLevelCache, lastStatus, hist, writersRest>>

\* addImageToCache 143-191: the two setCache calls; when both succeed the
\* mirror takes the list and the call returns true, otherwise the catch
\* block puts the image into the mirror and the call returns false
WriterAddWrite(w) ==
    /\ cacheWriters[w].pc = "setCache"
    /\ cacheWriters[w].op = "add"
    /\ redis' = setImagesAndStamp(redis, cacheWriters[w].images)
    /\ memoryCache' =
          [memoryCache EXCEPT
              !.images = IF setCacheResult THEN cacheWriters[w].images
                         ELSE upsertImage(memoryCache.images, WriterImage(w)),
              !.lastUpdated = toISOString(now)]
    /\ cacheWriters' = [cacheWriters EXCEPT ![w].pc = "done",
                                            ![w].result = setCacheResult]
    /\ UNCHANGED <<currentCacheType, now, imageCache, cacheFile, redisUp,
                   memoryLevelCache, lastStatus, hist, writersRest>>

\* removeImageFromCache 199-208 and 220: the list getCachedImages()
\* returned, filtered; when nothing was filtered out the call returns false
WriterRemoveRead(w) ==
    /\ cacheWriters[w].pc = "idle"
    /\ hist.written
    /\ LET images == redis_getCachedImages(redis, memoryCache)
           filteredImages == filterOutId(images, WriterImage(w).id) IN
       cacheWriters' = [cacheWriters EXCEPT ![w] =
          IF Len(filteredImages) # Len(images)
          THEN [pc |-> "setCache", op |-> "remove", id |-> WriterImage(w).id,
                images |-> filteredImages, result |-> FALSE]
          ELSE [pc |-> "done", op |-> "remove", id |-> WriterImage(w).id,
                images |-> filteredImages, result |-> FALSE]]
    /\ UNCHANGED <<cacheVars, writersRest>>

\* removeImageFromCache 209-218: the two setCache calls, whose results are
\* not looked at, the mirror, and the return of true
WriterRemoveWrite(w) ==
    /\ cacheWriters[w].pc = "setCache"
    /\ cacheWriters[w].op = "remove"
    /\ redis' = setImagesAndStamp(redis, cacheWriters[w].images)
    /\ memoryCache' = [memoryCache EXCEPT !.images = cacheWriters[w].images,
                                          !.lastUpdated = toISOString(now)]
    /\ cacheWriters' = [cacheWriters EXCEPT ![w].pc = "done", ![w].result = TRUE]
    /\ UNCHANGED <<currentCacheType, now, imageCache, cacheFile, redisUp,
                   memoryLevelCache, lastStatus, hist, writersRest>>

NextWriters ==
    \/ StoredBeforeWrites
    \/ \E w \in Requests : WriterAddRead(w)
    \/ \E w \in Requests : WriterAddWrite(w)
    \/ \E w \in Requests : WriterRemoveRead(w)
    \/ \E w \in Requests : WriterRemoveWrite(w)
    \/ RedisFails
    \/ RedisRecovers

\* the external key-value adapter is the one in use
InitWriters == InitCache /\ currentCacheType = "redis"

SpecWriters == InitWriters /\ [][NextWriters]_vars

\* C37: when the calls of the external key-value adapter that ran together
\* (adds and removes of different ids) have all reported success, the
\* stored list holds every image added and none of those removed
C37_ConcurrentWritesTakeEffect ==
    (\A w \in Requests : cacheWriters[w].pc = "done" /\ cacheWriters[w].result) =>
        \A w \in Requests :
            holdsId(committedImages, cacheWriters[w].id)
                <=> cacheWriters[w].op = "add"

----------------------------------------------------------------------------
(* part_012 408-447: handleGetCachedImages(), the GET request of the       *)
(* images endpoint: getCacheStatus(30), and syncCacheData() in the         *)
(* background when the cache is not initialized or has expired             *)

\* line 420: !cacheStatus.isInitialized || cacheStatus.isExpired
needsRefresh(cacheStatus) == ~cacheStatus.isInitialized \/ cacheStatus.isExpired

\* the request, with t the syncCacheData() call it may start (the first
\* call that is not under way)
HandleGetCachedImages(t) ==
    /\ syncers[t].pc = "idle"
    /\ \A u \in Triggers : u < t => syncers[u].pc # "idle"
    /\ getCacheStatusCall(30)
    /\ IF needsRefresh(mgr_getCacheStatus(30))
       THEN syncStartCall(t)
       ELSE UNCHANGED <<isSyncing, syncers>>
    /\ UNCHANGED <<mergeVars, limitVars, incVars, connVars, equivVars, normVars,
                   testVars, envVars, apiVars>>

NextRefresh ==
    \/ \E t \in Triggers : HandleGetCachedImages(t)
    \/ \E t \in Triggers : \E listed \in SeqsUpTo(ListedObjects, MaxListLen) :
          SyncListed(t, listed)
    \/ \E t \in Triggers : SyncReturn(t)
    \/ TickShort
    \/ RedisFails
    \/ RedisRecovers

\* listImages() and syncCache() return: a syncCacheData() call that has
\* started goes on to its end
SpecRefresh ==
    /\ InitCache
    /\ [][NextRefresh]_vars
    /\ WF_vars(\E t \in Triggers : \E listed \in SeqsUpTo(ListedObjects, MaxListLen) :
                  SyncListed(t, listed))
    /\ WF_vars(\E t \in Triggers : SyncReturn(t))

\* the lock is held by a syncCacheData() call under way only
GuardReleased == refreshing = {} => ~isSyncing

\* a GET that finds the cache not initialized or expired leaves a refresh
\* under way
GetStartsRefresh ==
    \A t \in Triggers :
        HandleGetCachedImages(t) /\ needsRefresh(mgr_getCacheStatus(30)) =>
            isSyncing'

\* a syncCacheData() call has run to its end
refreshCompleted == \E t \in Triggers : syncers[t].result = "synced"

\* a GET after a completed refresh, answered from the adapter and not from
\* the memory layer, reports the cache initialized
InitializedAfterRefresh ==
    \A t \in Triggers :
        ( /\ HandleGetCachedImages(t)
          /\ refreshCompleted
          /\ ~statusFromMemory(memoryLevelCache) ) =>
            mgr_getCacheStatus(30).isInitialized

\* C38: the refresh guard is released whenever syncCacheData() ends; a GET
\* that finds the cache not initialized or expired leads to a refresh that
\* completes, and a getCacheStatus() after it that is not answered from the
\* memory layer reports isInitialized true
C38_RefreshReleasesAndProgresses ==
    /\ []GuardReleased
    /\ [][GetStartsRefresh]_vars
    /\ (isSyncing ~> ~isSyncing)
    /\ [][InitializedAfterRefresh]_vars

RefreshGuardHolds ==
    /\ []GuardReleased
    /\ [][GetStartsRefresh]_vars
    /\ (isSyncing ~> ~isSyncing)

----------------------------------------------------------------------------
(* pages/api/upload.js 31-76: addImageToCacheWithRetry(result), called by  *)
(* the upload handler after uploadImage() and before its answer            *)

\* upload.js 44: maxRetries
UploadMaxRetries == 3

\* upload.js 57: the wait before the next attempt, 500 * retryCount ms
retryWaitMs(retryCount) == 500 * retryCount

\* whether addImageToCache(image) of the cache manager throws: it does not,
\* the external key-value adapter catches the failed write and returns
\* false (redisCacheService.js 169-190), which the manager drops
addImageToCacheThrows(image) == FALSE

\* the write of the attempt failed in the external store
failedInStore(image) ==
    /\ currentCacheType = "redis"
    /\ ~redis_addImageToCache(redis, memoryCache, image).result

uploadRest ==
    <<mergeVars, limitVars, incVars, syncVars, connVars, equivVars, normVars,
      testVars, envVars, deleteReq, generateReqs, cacheWriters>>

\* the handler has uploaded the file and calls addImageToCacheWithRetry
UploadStart(fileName) ==
    /\ uploadReq.pc \in {"idle", "done"}
    /\ uploadReq.uploads < MaxRequests
    /\ uploadReq' = [IdleUpload EXCEPT !.pc = "addImageToCache",
                                       !.fileName = fileName,
                                       !.uploads = uploadReq.uploads + 1]
    /\ UNCHANGED <<cacheVars, uploadRest>>

\* lines 46-63: one turn of the loop, the call of addImageToCache and what
\* follows: success, or the count of the failure with the wait or the throw
\* that ends the function
UploadAddAttempt ==
    /\ uploadReq.pc = "addImageToCache"
    /\ LET image == UploadedImage(uploadReq.fileName)
           first == uploadReq.attempts = 0 IN
       /\ addImageToCacheCall(image)
       /\ uploadReq' =
             IF ~addImageToCacheThrows(image)
             THEN [uploadReq EXCEPT
                      !.attempts = @ + 1,
                      !.firstFailedInStore = IF first THEN failedInStore(image) ELSE @,
                      !.pc = "syncImageMetadataToSupabase"]
             ELSE [uploadReq EXCEPT
                      !.attempts = @ + 1,
                      !.firstFailedInStore = IF first THEN failedInStore(image) ELSE @,
                      !.retryCount = @ + 1,
                      !.waited = IF uploadReq.retryCount + 1 < UploadMaxRetries
                                 THEN retryWaitMs(uploadReq.retryCount + 1) ELSE @,
                      !.pc = IF uploadReq.retryCount + 1 < UploadMaxRetries
                             THEN "addImageToCache" ELSE "done",
                      !.status = IF uploadReq.retryCount + 1 < UploadMaxRetries
                                 THEN @ ELSE 200]
    /\ UNCHANGED uploadRest

\* lines 66-72 and the handler's answer: syncImageMetadataToSupabase
\* returns or throws, and the upload is answered 200
UploadSyncMetadata ==
    /\ uploadReq.pc = "syncImageMetadataToSupabase"
    /\ uploadReq' = [uploadReq EXCEPT !.pc = "done", !.status = 200]
    /\ UNCHANGED <<cacheVars, uploadRest>>

NextUpload ==
    \/ \E fileName \in CacheImageIds : UploadStart(fileName)
    \/ UploadAddAttempt
    \/ UploadSyncMetadata
    \/ MgrGetCachedImages
    \/ TickShort
    \/ RedisFails
    \/ RedisRecovers

SpecUpload == InitCache /\ [][NextUpload]_vars

\* at most three attempts, and the upload is answered 200 whatever the
\* cache and the metadata store did
UploadBounded ==
    /\ uploadReq.attempts <= UploadMaxRetries
    /\ uploadReq.pc = "done" => uploadReq.status = 200
    /\ uploadReq.pc \notin {"idle", "done"} => ENABLED (UploadAddAttempt \/ UploadSyncMetadata)

\* a write that failed in the external store on the first attempt has been
\* attempted again when the function ends
RetriedAfterStoreFailure ==
    uploadReq.pc = "done" /\ uploadReq.firstFailedInStore =>
        uploadReq.attempts >= 2

\* C39: addImageToCacheWithRetry makes at most 3 attempts, always ends, and
\* the upload is answered 200 whatever the cache and the metadata store did;
\* a cache write that failed in the external store on the first attempt is
\* attempted again
C39_UploadRetriesCacheWrite == UploadBounded /\ RetriedAfterStoreFailure

----------------------------------------------------------------------------
(* Claims about the combined status *)

\* what getCacheStatus() would return now is not "not initialized" with
\* images
NoImagesUninitialized ==
    \A cacheExpireMinutes \in ExpireMinutesSet :
        LET status == mgr_getCacheStatus(cacheExpireMinutes) IN
        ~status.isInitialized => status.images = <<>>

\* what getCacheStatus() would return now is not "initialized" without
\* lastUpdated
NoInitializedUnstamped ==
    \A cacheExpireMinutes \in ExpireMinutesSet :
        LET status == mgr_getCacheStatus(cacheExpireMinutes) IN
        status.isInitialized => status.lastUpdated # NullTime

\* C40: getCacheStatus() never reports isInitialized false together with a
\* list that is not empty, and never isInitialized true together with an
\* absent lastUpdated
C40_StatusConsistent == NoImagesUninitialized /\ NoInitializedUnstamped

====
